---- MODULE Spec2Model ----
(* Model of the concurrency and state-tracking core of the emotion analysis   *)
(* pipeline: AsyncDeepFaceAnalyzer (utils/async_analysis.py), ThreadedCamera  *)
(* (utils/threaded_camera.py), CameraState (models/camera_state.py) and       *)
(* EmotionAnalysisSystem.process_frame (project_refactored.py).               *)
EXTENDS Integers, Sequences, FiniteSets, TLC

(* ------------------------------------------------------------------------ *)
(* Bounds of the model                                                        *)
(* ------------------------------------------------------------------------ *)
MaxSkip == 2
MaxSubmits == 5
MaxAnalyses == 2
MaxGets == 2
MaxCaptures == 3
MaxReads == 3
MaxTime == 9
MaxFrames == 7
MaxHistory == 2
MaxStamp == 1
MaxArg == 1
MaxResets == 2
MaxIterations == 3
MaxRunTime == 4
MaxPipelineFrames == 11
MaxRetries == 3
MaxOpenTime == 4
MaxLockCaptures == 1
MaxLockReads == 1
MaxLockSubmits == 2
MaxLockGets == 1

(* ------------------------------------------------------------------------ *)
(* Program constants                                                          *)
(* ------------------------------------------------------------------------ *)
FrameQueueMaxsize == 3
ResultQueueMaxsize == 1
OrchestratorFrameSkip == 5
(* The timeout process_frame passes to get_result, in milliseconds            *)
ProcessFrameGetTimeout == 1
PRESENCE_DETECTION_DELAY_SEC == 3
LOW_CONFIDENCE_TIMEOUT_SEC == 3
DEMOGRAPHIC_ANALYSIS_DURATION_SEC == 8

(* The main loop classifies every third frame                                 *)
ClassifyEvery == 3
(* The age in seconds of a session-end mark beyond which should_exit is true  *)
SessionEndExitDelay == 3
RetryDelay == 1

(* Python's None for a timestamp                                              *)
None == -1

(* Classifier outputs: the class name, and the confidence in percent          *)
ClassNames == {"Class 1", "Class 2", "Class 3"}
Confidences == {50, 100}

(* Python's None for a result dictionary: a result with sequence number 0.    *)
NoResult == [seq |-> 0, age |-> 0, gender |-> 0, gender_confidence |-> 0]

(* What the external DeepFace.analyze call can deliver for one frame: no face *)
(* (or an exception), or an attribute set whose age / gender /                *)
(* gender_confidence entries may each be missing (0 stands for a missing or   *)
(* falsy entry).                                                              *)
AnalysisOutcomes ==
    { [age |-> 0, gender |-> 0, gender_confidence |-> 0],
      [age |-> 1, gender |-> 1, gender_confidence |-> 1],
      [age |-> 2, gender |-> 2, gender_confidence |-> 0] }

VARIABLES
    (* AsyncDeepFaceAnalyzer fields *)
    running, frame_skip, frame_counter, frame_queue, result_queue,
    latest_result, total_analyses, failed_analyses,
    (* submit_frame in progress on the main thread *)
    sub_pc, sub_steps, sub_calls,
    (* get_result(timeout=0) in progress on the main thread *)
    gr_pc, gr_calls, gr_took, gr_last, gr_prev, gr_pub, gr_fresh,
    (* worker thread *)
    wk_pc, wk_frame, wk_result,
    (* history: frames ever placed on the frame queue, frames that passed
       the frame-skip test since the worker last dequeued one, number of
       evicted frames, number of times each result was queued *)
    placed, passed_since_deq, evicted, put_count,
    (* ThreadedCamera fields *)
    cam_running, cam_capture, cam_status, cam_frame, cam_frame_count,
    (* capture thread: position, and the (status, frame) pair it holds *)
    cap_pc, cap_status, cap_frame,
    (* stop() in progress on the main thread *)
    stop_pc,
    (* the device: number of the last frame it delivered *)
    last_ok,
    (* read() calls: the last two frames returned, and what the device had
       delivered and whether a frame was on its way to the slot at the last
       call *)
    rd_calls, rd_last, rd_prev, rd_seen_ok, rd_inflight,
    (* the clock read by time.time(), in seconds *)
    now,
    (* CameraState fields *)
    person_detected, session_end_detected, detection_start_time,
    session_end_start_time, low_confidence_start, ages, genders,
    cached_age, cached_gender, cached_gender_confidence,
    (* the last process_frame call: what it returned and when it was made *)
    pf_ret, pf_result, pf_time,
    (* history of the current presence episode: number of cache_demographics
       calls, and whether one was made before the demographic window ended *)
    cache_count, cache_early,
    (* time of the first of the current run of consecutive low-confidence
       presence classifications *)
    lc_first,
    (* whether the last process_frame call had to wait for its result *)
    pf_waited,
    (* the last process_frame call: the class classify_frame returned, the
       confidence (in percent) when that was the presence class, and whether
       analyzer.submit_frame was called *)
    pf_cls, pf_conf, pf_submitted,
    (* time of the first of the current run of consecutive session-end
       classifications *)
    mark_first,
    (* history: the frame each analysis result was computed from, and the
       frames behind the observations appended to ages and genders *)
    res_src, obs_src,
    (* CameraState.emotions *)
    emotions,
    (* the last CameraState method called on its own: its name, arguments and
       return value, the number of reset() calls in a row, and whether the
       first of them changed the state *)
    cs_op, cs_args, cs_ret, cs_resets, cs_changed,
    (* the camera configurations returned by config.camera.get_active_cameras *)
    active,
    (* position of the main thread in main(), run() and initialize() *)
    main_pc,
    (* the AsyncCameraInitializer of each camera, the index of the camera
       _wait_for_cameras waits for, what wait_for_camera returned for each
       camera, and the outcome of load_keras_model *)
    init_state, wait_idx, wait_result, model_load,
    (* EmotionAnalysisSystem fields: the keys of the cameras, video_writers
       and analyzers dictionaries, the camera_states dictionary, frame_count
       and exit_by_user *)
    cameras, video_writers, analyzers, camera_states, frame_count,
    exit_by_user,
    (* what initialize() and run() returned *)
    init_ret, run_ret,
    (* the current iteration: cameras that delivered a frame, cameras still
       to be processed *)
    frames, todo,
    (* why the main loop ended, whether cleanup() has run, whether
       analysis_result.json has been written *)
    loop_end, cleaned, exported,
    (* the last should_exit() call: what it returned and when it was made *)
    exit_ret, exit_time,
    (* history: failed reads in a row of each camera, cameras process_frame
       has been called for *)
    fails, processed,
    (* history: the resources in the order in which initialize() acquired
       them, and in the order in which cleanup() released them *)
    acquired, released,
    (* open_camera_with_retry in progress: position, max_retries, the loop
       variable attempt, the time at which time.sleep returns, what the call
       returned or raised, and history: the time and the outcome of each
       attempt, and the number of time.sleep calls *)
    op_pc, op_max, op_attempt, op_wake, op_ret, op_log, op_sleeps,
    (* the thread that holds ThreadedCamera.lock, the mutex of the frame queue
       and the mutex of the result queue ("none" when it is free) *)
    frame_lock, frame_mutex, result_mutex,
    (* position of the worker thread of an earlier start() that outlived the
       join of stop() *)
    prev_pc

analyzerVars == <<running, frame_skip, frame_counter, frame_queue,
                  result_queue, latest_result, total_analyses,
                  failed_analyses>>
submitVars == <<sub_pc, sub_steps, sub_calls>>
getVars == <<gr_pc, gr_calls, gr_took, gr_last, gr_prev, gr_pub, gr_fresh>>
workerVars == <<wk_pc, wk_frame, wk_result>>
histVars == <<placed, passed_since_deq, evicted, put_count>>

tcVars == <<cam_running, cam_capture, cam_status, cam_frame, cam_frame_count,
            cap_pc, cap_status, cap_frame, stop_pc, last_ok,
            rd_calls, rd_last, rd_prev, rd_seen_ok, rd_inflight>>

runVars == <<active, main_pc, init_state, wait_idx, wait_result, model_load,
             cameras, video_writers, analyzers, camera_states, frame_count,
             exit_by_user, init_ret, run_ret, frames, todo, loop_end, cleaned,
             exported, exit_ret, exit_time, fails, processed, acquired,
             released>>

openVars == <<op_pc, op_max, op_attempt, op_wake, op_ret, op_log, op_sleeps>>
syncVars == <<frame_lock, frame_mutex, result_mutex, prev_pc>>
pfVars == <<pf_cls, pf_conf, pf_submitted, mark_first>>
obsVars == <<res_src, obs_src>>

csState == <<now, person_detected, session_end_detected,
             detection_start_time, session_end_start_time,
             low_confidence_start, ages, genders, cached_age, cached_gender,
             cached_gender_confidence, pf_ret, pf_result, pf_time,
             cache_count, cache_early, lc_first, pf_waited, pfVars, emotions,
             cs_op, cs_args, cs_ret, cs_resets, cs_changed, runVars,
             openVars, syncVars>>

csVars == <<csState, obsVars>>

vars == <<analyzerVars, submitVars, getVars, workerVars, histVars, tcVars,
          csVars>>

(* What the threads of the analyzer and of the camera leave alone             *)
SyncFrame ==
    UNCHANGED <<now, person_detected, session_end_detected,
                detection_start_time, session_end_start_time,
                low_confidence_start, ages, genders, cached_age,
                cached_gender, cached_gender_confidence, pf_ret, pf_result,
                pf_time, cache_count, cache_early, lc_first, pf_waited,
                pfVars, obsVars, emotions, cs_op, cs_args, cs_ret,
                cs_resets, cs_changed, runVars, openVars>>

(* ------------------------------------------------------------------------ *)
(* queue.Queue operations                                                     *)
(* ------------------------------------------------------------------------ *)
(* Variant: full() that reports a full queue one item too late.               *)
QueueFull_OffByOne(q, maxsize) == Len(q) > maxsize

QueueFull(q, maxsize) == Len(q) >= maxsize

QueueEmpty(q) == Len(q) = 0

(* get_nowait(): the head is removed; on an empty queue queue.Empty is raised *)
(* and the queue is left as it is.                                            *)
GetNowait(q) == IF Len(q) > 0 THEN Tail(q) ELSE q

(* put_nowait(): the item is appended; on a full queue queue.Full is raised   *)
(* and the queue is left as it is.                                            *)
PutNowait(q, x, maxsize) == IF Len(q) < maxsize THEN Append(q, x) ELSE q

(* ------------------------------------------------------------------------ *)
(* AsyncDeepFaceAnalyzer.__init__                                             *)
(* ------------------------------------------------------------------------ *)
AnalyzerInit ==
    /\ running = FALSE
    /\ frame_skip \in 1..MaxSkip
    /\ frame_counter = 0
    /\ frame_queue = <<>>
    /\ result_queue = <<>>
    /\ latest_result = NoResult
    /\ total_analyses = 0
    /\ failed_analyses = 0
    /\ sub_pc = "idle" /\ sub_steps = 0 /\ sub_calls = 0
    /\ gr_pc = "idle" /\ gr_calls = 0 /\ gr_last = NoResult
    /\ gr_prev = NoResult /\ gr_pub = FALSE /\ gr_fresh = FALSE
    /\ gr_took = FALSE
    /\ wk_pc = "dead" /\ wk_frame = 0 /\ wk_result = NoResult
    /\ placed = {} /\ passed_since_deq = <<>> /\ evicted = 0
    /\ put_count = [n \in 1..(MaxAnalyses + 1) |-> 0]

(* start(): a no-op on a running analyzer, otherwise the flag is set and the  *)
(* worker thread is started.                                                  *)
Start ==
    /\ ~running
    /\ wk_pc = "dead"
    /\ running' = TRUE
    /\ wk_pc' = "get"
    /\ UNCHANGED <<frame_skip, frame_counter, frame_queue, result_queue,
                   latest_result, total_analyses, failed_analyses>>
    /\ UNCHANGED <<submitVars, getVars, wk_frame, wk_result,
                   histVars>>
    /\ UNCHANGED <<tcVars, csVars>>

(* stop(): a no-op on a stopped analyzer; otherwise the flag is cleared and    *)
(* the worker is joined with a timeout. The worker leaves its loop when it    *)
(* next tests the flag.                                                       *)
Stop ==
    /\ running
    /\ running' = FALSE
    /\ UNCHANGED <<frame_skip, frame_counter, frame_queue, result_queue,
                   latest_result, total_analyses, failed_analyses>>
    /\ UNCHANGED <<submitVars, getVars, workerVars, histVars>>
    /\ UNCHANGED <<tcVars, csVars>>

(* ------------------------------------------------------------------------ *)
(* AsyncDeepFaceAnalyzer.submit_frame, one action per queue operation         *)
(* ------------------------------------------------------------------------ *)
(* Variant: the frame-skip test made on the counter before its increment.     *)
SkipFrame_BeforeIncrement(counter, skip) == (counter - 1) % skip # 0

(* The frame-skip test: the frame is skipped unless the counter, already      *)
(* incremented for this call, is a multiple of frame_skip.                    *)
SkipFrame(counter, skip) == counter % skip # 0

(* Variant: the eviction done with the waiting get().                         *)
EvictEnabled_Blocking(q) == Len(q) > 0

(* get_nowait() never waits for an item.                                      *)
EvictEnabled(q) == TRUE

(* put_nowait() never waits for a free slot.                                  *)
PutEnabled(q) == TRUE

(* Entry of submit_frame: returns at once when the analyzer is not running or *)
(* the frame is skipped; otherwise goes on to the queue.full() test.          *)
SubmitCall ==
    /\ sub_pc = "idle"
    /\ sub_calls < MaxSubmits
    /\ sub_calls' = sub_calls + 1
    /\ sub_steps' = 1
    /\ IF ~running
       THEN /\ sub_pc' = "idle"
            /\ UNCHANGED <<frame_counter, passed_since_deq>>
       ELSE /\ frame_counter' = frame_counter + 1
            /\ IF SkipFrame(frame_counter + 1, frame_skip)
               THEN /\ sub_pc' = "idle"
                    /\ UNCHANGED passed_since_deq
               ELSE /\ sub_pc' = "full"
                    /\ passed_since_deq' =
                          Append(passed_since_deq, frame_counter + 1)
    /\ UNCHANGED <<running, frame_skip, frame_queue, result_queue,
                   latest_result, total_analyses, failed_analyses>>
    /\ UNCHANGED <<getVars, workerVars, placed, evicted, put_count>>
    /\ UNCHANGED <<tcVars, csVars>>

(* if self.frame_queue.full()                                                 *)
SubmitFull ==
    /\ sub_pc = "full"
    /\ sub_pc' = IF QueueFull(frame_queue, FrameQueueMaxsize)
                 THEN "evict" ELSE "put"
    /\ sub_steps' = sub_steps + 1
    /\ UNCHANGED <<analyzerVars, sub_calls, getVars, workerVars, histVars>>
    /\ UNCHANGED tcVars
    /\ frame_mutex' = "none"
    /\ UNCHANGED <<frame_lock, result_mutex, prev_pc>>
    /\ SyncFrame

(* self.frame_queue.get_nowait(), queue.Empty swallowed                       *)
SubmitEvict ==
    /\ sub_pc = "evict"
    /\ EvictEnabled(frame_queue)
    /\ frame_queue' = GetNowait(frame_queue)
    /\ evicted' = IF Len(frame_queue) > 0 THEN evicted + 1 ELSE evicted
    /\ sub_pc' = "put"
    /\ sub_steps' = sub_steps + 1
    /\ UNCHANGED <<running, frame_skip, frame_counter, result_queue,
                   latest_result, total_analyses, failed_analyses>>
    /\ UNCHANGED <<sub_calls, getVars, workerVars, placed, passed_since_deq,
                   put_count>>
    /\ UNCHANGED <<tcVars, csVars>>

(* self.frame_queue.put_nowait(frame_data), queue.Full swallowed. The frame   *)
(* task is identified by the value of frame_counter of its call.              *)
SubmitPut ==
    /\ sub_pc = "put"
    /\ PutEnabled(frame_queue)
    /\ frame_queue' = PutNowait(frame_queue, frame_counter, FrameQueueMaxsize)
    /\ IF Len(frame_queue) < FrameQueueMaxsize
       THEN placed' = placed \cup {frame_counter}
       ELSE UNCHANGED placed
    /\ sub_pc' = "idle"
    /\ sub_steps' = sub_steps + 1
    /\ UNCHANGED <<running, frame_skip, frame_counter, result_queue,
                   latest_result, total_analyses, failed_analyses>>
    /\ UNCHANGED <<sub_calls, getVars, workerVars, passed_since_deq, evicted,
                   put_count>>
    /\ UNCHANGED tcVars
    /\ frame_mutex' = "none"
    /\ UNCHANGED <<frame_lock, result_mutex, prev_pc>>
    /\ SyncFrame

SubmitStep == SubmitFull \/ SubmitEvict \/ SubmitPut

(* ------------------------------------------------------------------------ *)
(* AsyncDeepFaceAnalyzer._worker_loop, one action per shared-state access     *)
(* ------------------------------------------------------------------------ *)
(* while self.running: the loop is left when the flag is found cleared.       *)
WorkerExit ==
    /\ wk_pc = "get"
    /\ ~running
    /\ wk_pc' = "dead"
    /\ UNCHANGED <<analyzerVars, submitVars, getVars, wk_frame, wk_result,
                   histVars>>
    /\ UNCHANGED <<tcVars, csVars>>

(* while self.running: the flag is found set and the worker goes on to the    *)
(* frame queue.                                                               *)
WorkerTest ==
    /\ wk_pc = "get"
    /\ running
    /\ wk_pc' = "wait"
    /\ UNCHANGED <<analyzerVars, submitVars, getVars, wk_frame, wk_result,
                   histVars>>
    /\ UNCHANGED <<tcVars, csVars>>

(* frame_data = self.frame_queue.get(timeout=0.1), a frame being there: the   *)
(* flag is not looked at again.                                               *)
WorkerGet ==
    /\ wk_pc = "wait"
    /\ Len(frame_queue) > 0
    /\ wk_frame' = Head(frame_queue)
    /\ frame_queue' = Tail(frame_queue)
    /\ passed_since_deq' = <<>>
    /\ wk_pc' = "analyze"
    /\ UNCHANGED <<running, frame_skip, frame_counter, result_queue,
                   latest_result, total_analyses, failed_analyses>>
    /\ UNCHANGED <<submitVars, getVars, wk_result, placed, evicted,
                   put_count>>
    /\ UNCHANGED tcVars
    /\ frame_mutex' = "none"
    /\ UNCHANGED <<frame_lock, result_mutex, prev_pc>>
    /\ SyncFrame

(* Variant: the worker leaves its loop when the wait for a frame times out.   *)
WorkerEmpty_Exits ==
    /\ wk_pc = "wait"
    /\ Len(frame_queue) = 0
    /\ wk_pc' = "dead"
    /\ UNCHANGED <<analyzerVars, submitVars, getVars, wk_frame, wk_result,
                   histVars>>
    /\ UNCHANGED <<tcVars, csVars>>

(* except queue.Empty: continue, no frame having come within the 0.1 s        *)
WorkerEmpty ==
    /\ wk_pc = "wait"
    /\ Len(frame_queue) = 0
    /\ wk_pc' = "get"
    /\ UNCHANGED <<analyzerVars, submitVars, getVars, wk_frame, wk_result,
                   histVars>>
    /\ UNCHANGED tcVars
    /\ frame_mutex' = "none"
    /\ UNCHANGED <<frame_lock, result_mutex, prev_pc>>
    /\ SyncFrame

(* Variant: the failure of the analysis call escapes the loop and ends the    *)
(* worker thread.                                                             *)
WorkerAnalyzeFail_Dies ==
    /\ wk_pc = "analyze"
    /\ total_analyses < MaxAnalyses
    /\ total_analyses' = total_analyses + 1
    /\ failed_analyses' = failed_analyses + 1
    /\ wk_pc' = "dead"
    /\ UNCHANGED <<running, frame_skip, frame_counter, frame_queue,
                   result_queue, latest_result>>
    /\ UNCHANGED <<submitVars, getVars, wk_frame, wk_result, histVars>>
    /\ UNCHANGED <<tcVars, csVars>>

(* result = self._analyze(frame) and the statistics update. _analyze returns  *)
(* None when DeepFace raises or finds nothing.                                *)
WorkerAnalyzeFail ==
    /\ wk_pc = "analyze"
    /\ total_analyses < MaxAnalyses
    /\ total_analyses' = total_analyses + 1
    /\ failed_analyses' = failed_analyses + 1
    /\ wk_pc' = "get"
    /\ UNCHANGED <<running, frame_skip, frame_counter, frame_queue,
                   result_queue, latest_result>>
    /\ UNCHANGED <<submitVars, getVars, wk_frame, wk_result, histVars>>
    /\ UNCHANGED <<tcVars, csVars>>

WorkerAnalyzeOk ==
    /\ wk_pc = "analyze"
    /\ total_analyses < MaxAnalyses
    /\ \E o \in AnalysisOutcomes :
          wk_result' = [seq |-> total_analyses + 1, age |-> o.age,
                        gender |-> o.gender,
                        gender_confidence |-> o.gender_confidence]
    /\ total_analyses' = total_analyses + 1
    /\ wk_pc' = "drain"
    /\ UNCHANGED <<running, frame_skip, frame_counter, frame_queue,
                   result_queue, latest_result, failed_analyses>>
    /\ UNCHANGED <<submitVars, getVars, wk_frame, histVars>>
    /\ UNCHANGED <<tcVars, csVars>>

(* Variant: the new result is put without emptying the mailbox first.         *)
WorkerDrainTest_NoDrain ==
    /\ wk_pc = "drain"
    /\ wk_pc' = "put"
    /\ UNCHANGED <<analyzerVars, submitVars, getVars, wk_frame, wk_result,
                   histVars>>
    /\ UNCHANGED <<tcVars, csVars>>

(* while not self.result_queue.empty()                                        *)
WorkerDrainTest ==
    /\ wk_pc = "drain"
    /\ wk_pc' = IF QueueEmpty(result_queue) THEN "put" ELSE "drain_get"
    /\ UNCHANGED <<analyzerVars, submitVars, getVars, wk_frame, wk_result,
                   histVars>>
    /\ UNCHANGED tcVars
    /\ result_mutex' = "none"
    /\ UNCHANGED <<frame_lock, frame_mutex, prev_pc>>
    /\ SyncFrame

(* self.result_queue.get_nowait(); queue.Empty breaks out of the loop         *)
WorkerDrainGet ==
    /\ wk_pc = "drain_get"
    /\ result_queue' = GetNowait(result_queue)
    /\ wk_pc' = IF Len(result_queue) > 0 THEN "drain" ELSE "put"
    /\ UNCHANGED <<running, frame_skip, frame_counter, frame_queue,
                   latest_result, total_analyses, failed_analyses>>
    /\ UNCHANGED <<submitVars, getVars, wk_frame, wk_result,
                   histVars>>
    /\ UNCHANGED tcVars
    /\ result_mutex' = "none"
    /\ UNCHANGED <<frame_lock, frame_mutex, prev_pc>>
    /\ SyncFrame

(* self.result_queue.put_nowait(result), queue.Full swallowed                 *)
WorkerPut ==
    /\ wk_pc = "put"
    /\ result_queue' = PutNowait(result_queue, wk_result, ResultQueueMaxsize)
    /\ IF Len(result_queue) < ResultQueueMaxsize
       THEN /\ put_count' = [put_count EXCEPT ![wk_result.seq] = @ + 1]
            /\ gr_pub' = TRUE
       ELSE UNCHANGED <<put_count, gr_pub>>
    /\ wk_pc' = "get"
    /\ UNCHANGED <<running, frame_skip, frame_counter, frame_queue,
                   latest_result, total_analyses, failed_analyses>>
    /\ UNCHANGED <<submitVars, gr_pc, gr_calls, gr_took, gr_last, gr_prev,
                   gr_fresh, wk_frame, wk_result, placed, passed_since_deq,
                   evicted>>
    /\ UNCHANGED tcVars
    /\ result_mutex' = "none"
    /\ UNCHANGED <<frame_lock, frame_mutex, prev_pc>>
    /\ SyncFrame

WorkerStep ==
    \/ WorkerExit \/ WorkerTest \/ WorkerGet \/ WorkerEmpty
    \/ WorkerAnalyzeFail \/ WorkerAnalyzeOk
    \/ WorkerDrainTest \/ WorkerDrainGet \/ WorkerPut

(* ------------------------------------------------------------------------ *)
(* AsyncDeepFaceAnalyzer.get_result(timeout=0), one action per queue access   *)
(* ------------------------------------------------------------------------ *)
(* Variant: a call that took nothing new from the queue returns None.         *)
ReturnedResult_OnlyNew(latest, took) == IF took THEN latest ELSE NoResult

(* return self.latest_result: the cached latest result, whether or not this   *)
(* call took a new one from the queue.                                        *)
ReturnedResult(latest, took) == latest

GetResultCall ==
    /\ gr_pc = "idle"
    /\ gr_calls < MaxGets
    /\ gr_calls' = gr_calls + 1
    /\ gr_took' = FALSE
    /\ gr_pc' = "test"
    /\ UNCHANGED <<analyzerVars, submitVars, gr_last, gr_prev, gr_pub,
                   gr_fresh, workerVars, histVars>>
    /\ UNCHANGED <<tcVars, csVars>>

(* while not self.result_queue.empty(): an empty queue ends the loop and the  *)
(* call returns. gr_last / gr_prev record the values returned by the last two *)
(* calls, gr_fresh whether a result was published since the previous return.  *)
GetResultTest ==
    /\ gr_pc = "test"
    /\ IF QueueEmpty(result_queue)
       THEN /\ gr_pc' = "idle"
            /\ gr_prev' = gr_last
            /\ gr_last' = ReturnedResult(latest_result, gr_took)
            /\ gr_fresh' = gr_pub
            /\ gr_pub' = FALSE
       ELSE /\ gr_pc' = "get"
            /\ UNCHANGED <<gr_last, gr_prev, gr_pub, gr_fresh>>
    /\ UNCHANGED <<analyzerVars, submitVars, gr_calls, gr_took, workerVars,
                   histVars>>
    /\ UNCHANGED tcVars
    /\ result_mutex' = "none"
    /\ UNCHANGED <<frame_lock, frame_mutex, prev_pc>>
    /\ SyncFrame

(* self.latest_result = self.result_queue.get_nowait(); queue.Empty leaves    *)
(* the loop and the call returns.                                             *)
GetResultGet ==
    /\ gr_pc = "get"
    /\ IF Len(result_queue) > 0
       THEN /\ latest_result' = Head(result_queue)
            /\ result_queue' = Tail(result_queue)
            /\ gr_took' = TRUE
            /\ gr_pc' = "test"
            /\ UNCHANGED <<gr_last, gr_prev, gr_pub, gr_fresh>>
       ELSE /\ gr_pc' = "idle"
            /\ gr_prev' = gr_last
            /\ gr_last' = ReturnedResult(latest_result, gr_took)
            /\ gr_fresh' = gr_pub
            /\ gr_pub' = FALSE
            /\ UNCHANGED <<latest_result, result_queue, gr_took>>
    /\ UNCHANGED <<running, frame_skip, frame_counter, frame_queue,
                   total_analyses, failed_analyses>>
    /\ UNCHANGED <<submitVars, gr_calls, workerVars, histVars>>
    /\ UNCHANGED tcVars
    /\ result_mutex' = "none"
    /\ UNCHANGED <<frame_lock, frame_mutex, prev_pc>>
    /\ SyncFrame

GetResultStep == GetResultTest \/ GetResultGet

(* ------------------------------------------------------------------------ *)
(* The analyzer with its three threads of control                             *)
(* ------------------------------------------------------------------------ *)
NextAnalyzer ==
    \/ Start \/ Stop
    \/ SubmitCall \/ SubmitFull \/ SubmitEvict \/ SubmitPut
    \/ GetResultCall \/ GetResultTest \/ GetResultGet
    \/ WorkerExit \/ WorkerTest \/ WorkerGet \/ WorkerEmpty
    \/ WorkerAnalyzeFail \/ WorkerAnalyzeOk
    \/ WorkerDrainTest \/ WorkerDrainGet \/ WorkerPut

(* ------------------------------------------------------------------------ *)
(* start() after a stop() whose join timed out                                *)
(* ------------------------------------------------------------------------ *)
(* start() on an analyzer that stop() has left with its worker still inside   *)
(* the analysis call, the join having timed out: start() looks at the flag    *)
(* only, sets it and starts a new thread; self.thread now names the new       *)
(* thread.                                                                    *)
Restart ==
    /\ ~running
    /\ wk_pc = "analyze"
    /\ prev_pc = "dead"
    /\ running' = TRUE
    /\ prev_pc' = wk_pc
    /\ wk_pc' = "get"
    /\ UNCHANGED <<frame_skip, frame_counter, frame_queue, result_queue,
                   latest_result, total_analyses, failed_analyses>>
    /\ UNCHANGED <<submitVars, getVars, wk_frame, wk_result, histVars>>
    /\ UNCHANGED <<tcVars, frame_lock, frame_mutex, result_mutex>>
    /\ SyncFrame

(* _worker_loop on the earlier thread: while self.running, left when the flag *)
(* is found cleared                                                           *)
PrevExit ==
    /\ prev_pc = "get"
    /\ ~running
    /\ prev_pc' = "dead"
    /\ UNCHANGED <<analyzerVars, submitVars, getVars, workerVars, histVars>>
    /\ UNCHANGED <<tcVars, frame_lock, frame_mutex, result_mutex>>
    /\ SyncFrame

(* while self.running, the flag found set                                     *)
PrevTest ==
    /\ prev_pc = "get"
    /\ running
    /\ prev_pc' = "wait"
    /\ UNCHANGED <<analyzerVars, submitVars, getVars, workerVars, histVars>>
    /\ UNCHANGED <<tcVars, frame_lock, frame_mutex, result_mutex>>
    /\ SyncFrame

(* frame_data = self.frame_queue.get(timeout=0.1), a frame being there        *)
PrevGet ==
    /\ prev_pc = "wait"
    /\ Len(frame_queue) > 0
    /\ frame_queue' = Tail(frame_queue)
    /\ passed_since_deq' = <<>>
    /\ prev_pc' = "analyze"
    /\ UNCHANGED <<running, frame_skip, frame_counter, result_queue,
                   latest_result, total_analyses, failed_analyses>>
    /\ UNCHANGED <<submitVars, getVars, workerVars, placed, evicted,
                   put_count>>
    /\ UNCHANGED <<tcVars, frame_lock, frame_mutex, result_mutex>>
    /\ SyncFrame

(* except queue.Empty: continue                                               *)
PrevEmpty ==
    /\ prev_pc = "wait"
    /\ Len(frame_queue) = 0
    /\ prev_pc' = "get"
    /\ UNCHANGED <<analyzerVars, submitVars, getVars, workerVars, histVars>>
    /\ UNCHANGED <<tcVars, frame_lock, frame_mutex, result_mutex>>
    /\ SyncFrame

(* The analysis call of the earlier thread returns a result and the thread    *)
(* publishes it, taken as one step: the mailbox is emptied and the result put *)
(* into it.                                                                   *)
PrevPublish ==
    /\ prev_pc = "analyze"
    /\ total_analyses < MaxAnalyses
    /\ \E o \in AnalysisOutcomes :
          LET r == [seq |-> total_analyses + 1, age |-> o.age,
                    gender |-> o.gender,
                    gender_confidence |-> o.gender_confidence]
          IN  /\ result_queue' = PutNowait(<<>>, r, ResultQueueMaxsize)
              /\ put_count' = [put_count EXCEPT ![r.seq] = @ + 1]
    /\ total_analyses' = total_analyses + 1
    /\ gr_pub' = TRUE
    /\ prev_pc' = "get"
    /\ UNCHANGED <<running, frame_skip, frame_counter, frame_queue,
                   latest_result, failed_analyses>>
    /\ UNCHANGED <<submitVars, gr_pc, gr_calls, gr_took, gr_last, gr_prev,
                   gr_fresh, workerVars, placed, passed_since_deq, evicted>>
    /\ UNCHANGED <<tcVars, frame_lock, frame_mutex, result_mutex>>
    /\ SyncFrame

(* An analyzer that is started, stopped and started again while frames are    *)
(* submitted                                                                  *)
NextRestart ==
    \/ Start \/ Stop \/ Restart
    \/ SubmitCall \/ SubmitFull \/ SubmitEvict \/ SubmitPut
    \/ WorkerExit \/ WorkerTest \/ WorkerGet \/ WorkerEmpty
    \/ WorkerAnalyzeFail \/ WorkerAnalyzeOk
    \/ WorkerDrainTest \/ WorkerDrainGet \/ WorkerPut
    \/ PrevExit \/ PrevTest \/ PrevGet \/ PrevEmpty \/ PrevPublish

(* ------------------------------------------------------------------------ *)
(* The analyzer left running, with a main loop that keeps asking for results  *)
(* ------------------------------------------------------------------------ *)
(* submit_frame called while the analyses so far and the pending frames,      *)
(* those queued and the one in the hands of the worker, leave room for one    *)
(* more analysis                                                              *)
LiveSubmitCall ==
    /\ total_analyses + Len(frame_queue)
           + (IF wk_pc = "analyze" THEN 1 ELSE 0) < MaxAnalyses
    /\ SubmitCall

(* get_result(timeout=0) called again by the main loop, after the calls that  *)
(* are counted                                                                *)
GetResultCallAgain ==
    /\ gr_pc = "idle"
    /\ gr_calls = MaxGets
    /\ gr_took' = FALSE
    /\ gr_pc' = "test"
    /\ UNCHANGED <<analyzerVars, submitVars, gr_calls, gr_last, gr_prev,
                   gr_pub, gr_fresh, workerVars, histVars>>
    /\ UNCHANGED <<tcVars, csVars>>

NextLive ==
    \/ Start
    \/ LiveSubmitCall \/ SubmitFull \/ SubmitPut
    \/ GetResultCall \/ GetResultCallAgain \/ GetResultTest \/ GetResultGet
    \/ WorkerTest \/ WorkerGet \/ WorkerEmpty
    \/ WorkerAnalyzeFail \/ WorkerAnalyzeOk
    \/ WorkerDrainTest \/ WorkerDrainGet \/ WorkerPut

(* ------------------------------------------------------------------------ *)
(* ThreadedCamera: frames are numbered 1, 2, ... in the order in which the    *)
(* device delivers them; 0 stands for None.                                   *)
(* ------------------------------------------------------------------------ *)
CameraInit ==
    /\ cam_running = FALSE
    /\ cam_capture = "none"
    /\ cam_status = FALSE
    /\ cam_frame = 0
    /\ cam_frame_count = 0
    /\ cap_pc = "dead" /\ cap_status = FALSE /\ cap_frame = 0
    /\ stop_pc = "idle"
    /\ last_ok = 0
    /\ rd_calls = 0 /\ rd_last = 0 /\ rd_prev = 0 /\ rd_seen_ok = 0
    /\ rd_inflight = FALSE

(* start() with _open_camera() succeeding: the device is opened, the flag set *)
(* and the capture thread started. A start() on a running camera changes      *)
(* nothing.                                                                   *)
CameraStart ==
    /\ ~cam_running
    /\ cap_pc = "dead"
    /\ stop_pc = "idle"
    /\ cam_capture' = "open"
    /\ cam_running' = TRUE
    /\ cap_pc' = "loop"
    /\ UNCHANGED <<cam_status, cam_frame, cam_frame_count, cap_status,
                   cap_frame, stop_pc, last_ok, rd_calls, rd_last, rd_prev,
                   rd_seen_ok, rd_inflight>>
    /\ UNCHANGED <<analyzerVars, submitVars, getVars, workerVars, histVars,
                   csVars>>

(* start() with _open_camera() failing: a capture object that is not opened   *)
(* is left behind and no thread is started.                                   *)
CameraStartFail ==
    /\ ~cam_running
    /\ cap_pc = "dead"
    /\ stop_pc = "idle"
    /\ cam_capture' = "closed"
    /\ UNCHANGED <<cam_running, cam_status, cam_frame, cam_frame_count,
                   cap_pc, cap_status, cap_frame, stop_pc, last_ok, rd_calls,
                   rd_last, rd_prev, rd_seen_ok, rd_inflight>>
    /\ UNCHANGED <<analyzerVars, submitVars, getVars, workerVars, histVars,
                   csVars>>

(* stop(): self.running = False, then the timed join                          *)
CameraStop ==
    /\ stop_pc = "idle"
    /\ cam_running
    /\ cam_running' = FALSE
    /\ stop_pc' = "join"
    /\ UNCHANGED <<cam_capture, cam_status, cam_frame, cam_frame_count,
                   cap_pc, cap_status, cap_frame, last_ok, rd_calls, rd_last,
                   rd_prev, rd_seen_ok, rd_inflight>>
    /\ UNCHANGED <<analyzerVars, submitVars, getVars, workerVars, histVars,
                   csVars>>

(* stop() after thread.join(timeout=2.0) has returned, the thread ended or    *)
(* not: self.capture.release(); self.capture = None                           *)
CameraRelease ==
    /\ stop_pc = "join"
    /\ cam_capture' = "none"
    /\ stop_pc' = "idle"
    /\ UNCHANGED <<cam_running, cam_status, cam_frame, cam_frame_count,
                   cap_pc, cap_status, cap_frame, last_ok, rd_calls, rd_last,
                   rd_prev, rd_seen_ok, rd_inflight>>
    /\ UNCHANGED <<analyzerVars, submitVars, getVars, workerVars, histVars,
                   csVars>>

(* _update_frame: while self.running, left when the flag is found cleared     *)
CaptureExit ==
    /\ cap_pc = "loop"
    /\ ~cam_running
    /\ cap_pc' = "dead"
    /\ UNCHANGED <<cam_running, cam_capture, cam_status, cam_frame,
                   cam_frame_count, cap_status, cap_frame, stop_pc, last_ok,
                   rd_calls, rd_last, rd_prev, rd_seen_ok, rd_inflight>>
    /\ UNCHANGED <<analyzerVars, submitVars, getVars, workerVars, histVars,
                   csVars>>

(* _update_frame: if self.capture and self.capture.isOpened(); when the test  *)
(* fails the thread sleeps and loops, which changes nothing.                  *)
CaptureTest ==
    /\ cap_pc = "loop"
    /\ cam_running
    /\ cam_capture = "open"
    /\ cap_pc' = "reading"
    /\ UNCHANGED <<cam_running, cam_capture, cam_status, cam_frame,
                   cam_frame_count, cap_status, cap_frame, stop_pc, last_ok,
                   rd_calls, rd_last, rd_prev, rd_seen_ok, rd_inflight>>
    /\ UNCHANGED <<analyzerVars, submitVars, getVars, workerVars, histVars,
                   csVars>>

(* status, frame = self.capture.read() delivering the next frame              *)
CaptureReadOk ==
    /\ cap_pc = "reading"
    /\ cam_capture = "open"
    /\ last_ok < MaxCaptures
    /\ last_ok' = last_ok + 1
    /\ cap_status' = TRUE
    /\ cap_frame' = last_ok + 1
    /\ cap_pc' = "publish"
    /\ UNCHANGED <<cam_running, cam_capture, cam_status, cam_frame,
                   cam_frame_count, stop_pc, rd_calls, rd_last, rd_prev,
                   rd_seen_ok, rd_inflight>>
    /\ UNCHANGED <<analyzerVars, submitVars, getVars, workerVars, histVars,
                   csVars>>

(* status, frame = self.capture.read() returning (False, None)                *)
CaptureReadFail ==
    /\ cap_pc = "reading"
    /\ cap_status' = FALSE
    /\ cap_frame' = 0
    /\ cap_pc' = "publish"
    /\ UNCHANGED <<cam_running, cam_capture, cam_status, cam_frame,
                   cam_frame_count, stop_pc, last_ok, rd_calls, rd_last,
                   rd_prev, rd_seen_ok, rd_inflight>>
    /\ UNCHANGED <<analyzerVars, submitVars, getVars, workerVars, histVars,
                   csVars>>

(* self.capture.read() raising, as it does when stop() has set self.capture   *)
(* to None behind the thread's back                                           *)
CaptureReadRaise ==
    /\ cap_pc = "reading"
    /\ cap_pc' = "except"
    /\ UNCHANGED <<cam_running, cam_capture, cam_status, cam_frame,
                   cam_frame_count, cap_status, cap_frame, stop_pc, last_ok,
                   rd_calls, rd_last, rd_prev, rd_seen_ok, rd_inflight>>
    /\ UNCHANGED <<analyzerVars, submitVars, getVars, workerVars, histVars,
                   csVars>>

(* Variant: the slot is overwritten whatever the status of the capture.       *)
PublishFrame_Always(old, status, frame) == frame

(* if status: self.frame = frame                                              *)
PublishFrame(old, status, frame) == IF status THEN frame ELSE old

(* with self.lock: self.status = status; if status: the frame is stored and   *)
(* frame_count incremented; then the sleep and the next iteration.            *)
CapturePublish ==
    /\ cap_pc = "publish"
    /\ cam_status' = cap_status
    /\ cam_frame' = PublishFrame(cam_frame, cap_status, cap_frame)
    /\ cam_frame_count' = IF cap_status THEN cam_frame_count + 1
                          ELSE cam_frame_count
    /\ cap_pc' = "loop"
    /\ UNCHANGED <<cam_running, cam_capture, cap_status, cap_frame, stop_pc,
                   last_ok, rd_calls, rd_last, rd_prev, rd_seen_ok,
                   rd_inflight>>
    /\ UNCHANGED <<analyzerVars, submitVars, getVars, workerVars, histVars>>
    /\ frame_lock' = "none"
    /\ UNCHANGED <<frame_mutex, result_mutex, prev_pc>>
    /\ SyncFrame

(* except Exception: with self.lock: self.status = False                      *)
CaptureExcept ==
    /\ cap_pc = "except"
    /\ cam_status' = FALSE
    /\ cap_pc' = "loop"
    /\ UNCHANGED <<cam_running, cam_capture, cam_frame, cam_frame_count,
                   cap_status, cap_frame, stop_pc, last_ok, rd_calls, rd_last,
                   rd_prev, rd_seen_ok, rd_inflight>>
    /\ UNCHANGED <<analyzerVars, submitVars, getVars, workerVars, histVars,
                   csVars>>

(* read(): with self.lock: return self.status, copy of self.frame             *)
CameraRead ==
    /\ rd_calls < MaxReads
    /\ rd_calls' = rd_calls + 1
    /\ rd_prev' = rd_last
    /\ rd_last' = cam_frame
    /\ rd_seen_ok' = last_ok
    /\ rd_inflight' = (cap_pc = "publish" /\ cap_status)
    /\ UNCHANGED <<cam_running, cam_capture, cam_status, cam_frame,
                   cam_frame_count, cap_pc, cap_status, cap_frame, stop_pc,
                   last_ok>>
    /\ UNCHANGED <<analyzerVars, submitVars, getVars, workerVars, histVars>>
    /\ frame_lock' = "none"
    /\ UNCHANGED <<frame_mutex, result_mutex, prev_pc>>
    /\ SyncFrame

NextCamera ==
    \/ CameraStart \/ CameraStartFail \/ CameraStop \/ CameraRelease
    \/ CaptureExit \/ CaptureTest \/ CaptureReadOk \/ CaptureReadFail
    \/ CaptureReadRaise \/ CapturePublish \/ CaptureExcept
    \/ CameraRead

(* A started camera whose device delivers a frame on every read and which    *)
(* is not stopped                                                             *)
NextDelivering ==
    \/ CameraStart
    \/ CaptureTest \/ CaptureReadOk \/ CapturePublish
    \/ CameraRead

(* ------------------------------------------------------------------------ *)
(* Locks: ThreadedCamera.lock and the mutexes of the two queues               *)
(* ------------------------------------------------------------------------ *)
(* Everything but the three locks                                             *)
LockFrame ==
    /\ UNCHANGED <<analyzerVars, submitVars, getVars, workerVars, histVars,
                   tcVars, prev_pc>>
    /\ SyncFrame

(* The main thread is inside none of read(), submit_frame(), get_result():    *)
(* run() calls them one after the other.                                      *)
MainIdle == sub_pc = "idle" /\ gr_pc = "idle" /\ frame_lock # "main"

(* Variant: the lock is taken before the device is read and kept while        *)
(* capture.read() blocks.                                                     *)
CaptureAcquire_BeforeRead ==
    /\ cap_pc = "reading"
    /\ frame_lock = "none"
    /\ frame_lock' = "capture"
    /\ UNCHANGED <<frame_mutex, result_mutex>>
    /\ LockFrame

(* _update_frame: with self.lock, entered after capture.read() has returned   *)
CaptureAcquire ==
    /\ cap_pc = "publish"
    /\ frame_lock = "none"
    /\ frame_lock' = "capture"
    /\ UNCHANGED <<frame_mutex, result_mutex>>
    /\ LockFrame

(* read(): with self.lock, entered by the main thread                         *)
ReadAcquire ==
    /\ MainIdle
    /\ rd_calls < MaxLockReads
    /\ frame_lock = "none"
    /\ frame_lock' = "main"
    /\ UNCHANGED <<frame_mutex, result_mutex>>
    /\ LockFrame

(* The main thread inside submit_frame() or get_result() takes the mutex of   *)
(* the queue it is about to use: frame_queue.full() / put_nowait(),           *)
(* result_queue.empty() / get_nowait().                                       *)
MainAcquire ==
    /\ sub_pc \in {"full", "put"} \/ gr_pc \in {"test", "get"}
    /\ IF sub_pc \in {"full", "put"}
       THEN /\ frame_mutex = "none"
            /\ frame_mutex' = "main"
            /\ UNCHANGED result_mutex
       ELSE /\ result_mutex = "none"
            /\ result_mutex' = "main"
            /\ UNCHANGED frame_mutex
    /\ UNCHANGED frame_lock
    /\ LockFrame

(* _worker_loop takes the mutex of the queue it is about to use:              *)
(* frame_queue.get(timeout=0.1), result_queue.empty() / get_nowait() /        *)
(* put_nowait().                                                              *)
WorkerAcquire ==
    /\ wk_pc \in {"wait", "drain", "drain_get", "put"}
    /\ IF wk_pc = "wait"
       THEN /\ frame_mutex = "none"
            /\ frame_mutex' = "worker"
            /\ UNCHANGED result_mutex
       ELSE /\ result_mutex = "none"
            /\ result_mutex' = "worker"
            /\ UNCHANGED frame_mutex
    /\ UNCHANGED frame_lock
    /\ LockFrame

(* submit_frame() and get_result() entered by the main thread when it is in   *)
(* no other call, a bounded number of times                                   *)
LockSubmitCall ==
    /\ MainIdle
    /\ sub_calls < MaxLockSubmits
    /\ LiveSubmitCall

LockGetResultCall ==
    /\ MainIdle
    /\ gr_calls < MaxLockGets
    /\ GetResultCall

(* capture.read() delivering a frame, a bounded number of times               *)
LockCaptureReadOk == last_ok < MaxLockCaptures /\ CaptureReadOk

(* The three threads with every lock acquisition a step of its own; a step    *)
(* that runs under a lock is taken by the holder of the lock and releases     *)
(* the lock.                                                                  *)
NextLocks ==
    \/ Start \/ CameraStart
    \/ CaptureTest \/ LockCaptureReadOk \/ CaptureAcquire
    \/ (frame_lock = "capture" /\ CapturePublish)
    \/ ReadAcquire
    \/ (frame_lock = "main" /\ CameraRead)
    \/ LockSubmitCall \/ LockGetResultCall \/ MainAcquire
    \/ (frame_mutex = "main" /\ SubmitFull)
    \/ (frame_mutex = "main" /\ SubmitPut)
    \/ (result_mutex = "main" /\ GetResultTest)
    \/ (result_mutex = "main" /\ GetResultGet)
    \/ WorkerTest \/ WorkerAcquire
    \/ (frame_mutex = "worker" /\ WorkerGet)
    \/ (frame_mutex = "worker" /\ WorkerEmpty)
    \/ WorkerAnalyzeFail \/ WorkerAnalyzeOk
    \/ (result_mutex = "worker" /\ WorkerDrainTest)
    \/ (result_mutex = "worker" /\ WorkerDrainGet)
    \/ (result_mutex = "worker" /\ WorkerPut)

(* ------------------------------------------------------------------------ *)
(* CameraState                                                                *)
(* ------------------------------------------------------------------------ *)
CameraStateInit ==
    /\ person_detected = FALSE
    /\ session_end_detected = FALSE
    /\ detection_start_time = None
    /\ session_end_start_time = None
    /\ low_confidence_start = None
    /\ ages = <<>>
    /\ genders = <<>>
    /\ cached_age = 0
    /\ cached_gender = 0
    /\ cached_gender_confidence = 0
    /\ emotions = <<>>

(* CameraState.get_elapsed_time(current_time)                                 *)
get_elapsed_time(start, current_time) ==
    IF start = None THEN None ELSE current_time - start

(* CameraState.should_analyze_demographics(current_time, threshold)           *)
ShouldAnalyzeDemographics(start, current_time, threshold) ==
    IF start = None THEN FALSE
    ELSE current_time - start <= threshold

(* CameraState.should_analyze_demographics(current_time, threshold=8.0)       *)
should_analyze_demographics(start, current_time) ==
    ShouldAnalyzeDemographics(start, current_time,
                              DEMOGRAPHIC_ANALYSIS_DURATION_SEC)

(* CameraState.cache_demographics(age, gender, gender_confidence): the four   *)
(* values it leaves in cached_age, ages, the cached gender pair and genders.  *)
CachedAgeAfter(old, age) == IF age # 0 THEN age ELSE old

AgesAfter(old, age) == IF age # 0 THEN Append(old, age) ELSE old

CachedGenderAfter(old, gender, conf) ==
    IF gender # 0 /\ conf # 0 THEN <<gender, conf>> ELSE old

GendersAfter(old, gender, conf) ==
    IF gender # 0 /\ conf # 0 THEN Append(old, <<gender, conf>>) ELSE old

(* ------------------------------------------------------------------------ *)
(* EmotionAnalysisSystem.process_frame for one camera. The call is one action *)
(* of the main thread; the worker thread runs between the calls.              *)
(* ------------------------------------------------------------------------ *)
(* The low-confidence test: 'stop' is returned when the timer is set and more *)
(* than 3 s old.                                                              *)
LowConfidenceStop(cls, conf, lcs, t) ==
    /\ cls = "Class 1"
    /\ conf < 100
    /\ lcs # None
    /\ t - lcs > LOW_CONFIDENCE_TIMEOUT_SEC

LowConfidenceStartAfter(cls, conf, lcs, t) ==
    IF cls = "Class 1"
    THEN IF conf < 100 THEN (IF lcs = None THEN t ELSE lcs) ELSE None
    ELSE lcs

PersonDetectedAfter(cls) == cls = "Class 1"

DetectionStartAfter(cls, detected, start, t) ==
    IF cls = "Class 1" /\ ~detected THEN t ELSE start

(* Variant: the presence branch leaves session_end_detected as it is.         *)
SessionEndAfter_NotCleared(cls, ended) ==
    IF cls = "Class 1" THEN ended ELSE cls = "Class 2"

(* state.session_end_detected after the three branches                        *)
SessionEndAfter(cls, ended) ==
    IF cls = "Class 1" THEN FALSE ELSE cls = "Class 2"

(* Variant: a timestamp once set is kept.                                     *)
SessionEndStartAfter_KeepsOld(cls, ended, start, t) ==
    IF cls = "Class 2" /\ ~ended /\ start = None THEN t ELSE start

(* state.session_end_start_time after the three branches                      *)
SessionEndStartAfter(cls, ended, start, t) ==
    IF cls = "Class 2" /\ ~ended THEN t ELSE start

(* Variant: the frame is handed over from the end of the delay on.            *)
SubmitsFrame_AtDelay(detected, start, t) ==
    /\ detected
    /\ start # None
    /\ t - start >= PRESENCE_DETECTION_DELAY_SEC

(* Whether the frame is handed to analyzer.submit_frame                       *)
SubmitsFrame(detected, start, t) ==
    /\ detected
    /\ start # None
    /\ t - start > PRESENCE_DETECTION_DELAY_SEC

(* submit_frame run to completion: the frame queue it leaves                  *)
SubmittedQueue(q, counter, skip) ==
    IF SkipFrame(counter, skip) THEN q
    ELSE PutNowait(IF QueueFull(q, FrameQueueMaxsize) THEN GetNowait(q)
                   ELSE q, counter, FrameQueueMaxsize)

(* get_result(timeout=0.001): a queued result is taken, otherwise the wait    *)
(* times out and the cached result is returned.                               *)
TimedGetResult(q, latest) == IF Len(q) > 0 THEN Head(q) ELSE latest

(* get_result(timeout): with timeout > 0 the result is taken with the         *)
(* blocking result_queue.get(timeout=timeout), which waits on an empty queue  *)
(* until a result is put or the timeout expires; otherwise with get_nowait.   *)
GetResultWaits(timeout, q) == timeout > 0 /\ Len(q) = 0

(* Whether cache_demographics is called for the result                        *)
CachesDemographics(result, start, t) ==
    /\ result # NoResult
    /\ result.age # 0
    /\ result.gender # 0
    /\ should_analyze_demographics(start, t)

(* The cached demographics are spliced into a result without an age           *)
SplicedResult(result, age, gender, conf) ==
    IF result.age = 0 /\ age # 0
    THEN [result EXCEPT !.age = age, !.gender = gender,
                        !.gender_confidence = conf]
    ELSE result

ProcessFrameStop(cls, conf) ==
    /\ LowConfidenceStop(cls, conf, low_confidence_start, now)
    /\ pf_ret' = "stop"
    /\ pf_time' = now
    /\ lc_first' = IF lc_first = None THEN now ELSE lc_first
    /\ pf_waited' = FALSE
    /\ pf_cls' = cls
    /\ pf_conf' = IF cls = "Class 1" THEN conf ELSE 0
    /\ pf_submitted' = FALSE
    /\ mark_first' = None
    /\ UNCHANGED <<now, person_detected, session_end_detected,
                   detection_start_time, session_end_start_time,
                   low_confidence_start, ages, genders, cached_age,
                   cached_gender, cached_gender_confidence, pf_result,
                   cache_count, cache_early, obsVars, emotions, cs_op,
                   cs_args, cs_ret, cs_resets, cs_changed, runVars,
                   openVars, syncVars>>
    /\ UNCHANGED <<analyzerVars, submitVars, getVars, workerVars, histVars,
                   tcVars>>

ProcessFrameGo(cls, conf) ==
    /\ ~LowConfidenceStop(cls, conf, low_confidence_start, now)
    /\ LET detected == PersonDetectedAfter(cls)
           start == DetectionStartAfter(cls, person_detected,
                                        detection_start_time, now)
           submits == SubmitsFrame(detected, start, now) /\ running
           counter == IF submits THEN frame_counter + 1 ELSE frame_counter
           queue == IF submits
                    THEN SubmittedQueue(frame_queue, counter, frame_skip)
                    ELSE frame_queue
           result == TimedGetResult(result_queue, latest_result)
           caches == CachesDemographics(result, start, now)
           age == IF caches THEN CachedAgeAfter(cached_age, result.age)
                  ELSE cached_age
           pair == IF caches
                   THEN CachedGenderAfter(
                            <<cached_gender, cached_gender_confidence>>,
                            result.gender, result.gender_confidence)
                   ELSE <<cached_gender, cached_gender_confidence>>
           returned == IF result = NoResult THEN NoResult
                       ELSE SplicedResult(result, age, pair[1], pair[2])
           episode == cls = "Class 1" /\ ~person_detected
           count == IF episode THEN 0 ELSE cache_count
           early == IF episode THEN FALSE ELSE cache_early
       IN  /\ person_detected' = detected
           /\ detection_start_time' = start
           /\ session_end_detected' = SessionEndAfter(cls, session_end_detected)
           /\ session_end_start_time' =
                 SessionEndStartAfter(cls, session_end_detected,
                                      session_end_start_time, now)
           /\ low_confidence_start' =
                 LowConfidenceStartAfter(cls, conf, low_confidence_start, now)
           /\ frame_counter' = counter
           /\ frame_queue' = queue
           /\ placed' = IF submits /\ ~SkipFrame(counter, frame_skip)
                        THEN placed \cup {counter} ELSE placed
           /\ evicted' = IF submits /\ ~SkipFrame(counter, frame_skip)
                            /\ QueueFull(frame_queue, FrameQueueMaxsize)
                         THEN evicted + 1 ELSE evicted
           /\ result_queue' = GetNowait(result_queue)
           /\ latest_result' = returned
           /\ ages' = IF caches THEN AgesAfter(ages, result.age) ELSE ages
           /\ genders' = IF caches
                         THEN GendersAfter(genders, result.gender,
                                           result.gender_confidence)
                         ELSE genders
           /\ cached_age' = age
           /\ cached_gender' = pair[1]
           /\ cached_gender_confidence' = pair[2]
           /\ pf_submitted' = SubmitsFrame(detected, start, now)
           /\ obs_src' = IF caches THEN Append(obs_src, res_src[result.seq])
                         ELSE obs_src
           /\ pf_ret' = IF result = NoResult THEN "none" ELSE "result"
           /\ pf_result' = returned
           /\ cache_count' = IF caches THEN count + 1 ELSE count
           /\ cache_early' =
                 (early \/ (caches /\ now - start
                                        < DEMOGRAPHIC_ANALYSIS_DURATION_SEC))
    /\ pf_time' = now
    /\ lc_first' = IF cls = "Class 1" /\ conf < 100
                   THEN (IF lc_first = None THEN now ELSE lc_first)
                   ELSE None
    /\ pf_waited' = GetResultWaits(ProcessFrameGetTimeout, result_queue)
    /\ pf_cls' = cls
    /\ pf_conf' = IF cls = "Class 1" THEN conf ELSE 0
    /\ mark_first' = IF cls = "Class 2"
                     THEN (IF mark_first = None THEN now ELSE mark_first)
                     ELSE None
    /\ UNCHANGED <<now, running, frame_skip, total_analyses, failed_analyses,
                   passed_since_deq, put_count, res_src, emotions, cs_op,
                   cs_args, cs_ret, cs_resets, cs_changed, runVars,
                   openVars, syncVars>>
    /\ UNCHANGED <<submitVars, getVars, workerVars, tcVars>>

(* One process_frame call of the main loop, which ends once a call has        *)
(* returned 'stop'. The classifier output is any class with any confidence.   *)
ProcessFrame ==
    /\ pf_ret # "stop"
    /\ frame_counter < MaxFrames
    /\ Len(ages) < MaxHistory
    /\ \E cls \in ClassNames, conf \in Confidences :
          ProcessFrameStop(cls, conf) \/ ProcessFrameGo(cls, conf)

(* The passing of time between two calls                                      *)
Tick ==
    /\ now < MaxTime
    /\ now' = now + 1
    /\ UNCHANGED <<person_detected, session_end_detected,
                   detection_start_time, session_end_start_time,
                   low_confidence_start, ages, genders, cached_age,
                   cached_gender, cached_gender_confidence, pf_ret, pf_result,
                   pf_time, cache_count, cache_early, lc_first, pf_waited,
                   pfVars, obsVars, emotions, cs_op, cs_args, cs_ret,
                   cs_resets, cs_changed, runVars,
                   openVars, syncVars>>
    /\ UNCHANGED <<analyzerVars, submitVars, getVars, workerVars, histVars,
                   tcVars>>

(* Variant: the worker takes the newest frame of the queue.                   *)
WorkerTake_Newest ==
    /\ wk_pc = "get"
    /\ running
    /\ Len(frame_queue) > 0
    /\ wk_frame' = frame_queue[Len(frame_queue)]
    /\ frame_queue' = SubSeq(frame_queue, 1, Len(frame_queue) - 1)
    /\ passed_since_deq' = <<>>
    /\ wk_pc' = "analyze"
    /\ UNCHANGED <<running, frame_skip, frame_counter, result_queue,
                   latest_result, total_analyses, failed_analyses>>
    /\ UNCHANGED <<submitVars, getVars, wk_result, placed, evicted,
                   put_count>>
    /\ UNCHANGED <<tcVars, csVars>>

(* The worker's test of the flag and its dequeue of a frame, taken as one     *)
(* step between two process_frame calls: the flag stays set while the main    *)
(* loop runs.                                                                 *)
WorkerTake ==
    /\ wk_pc = "get"
    /\ running
    /\ Len(frame_queue) > 0
    /\ wk_frame' = Head(frame_queue)
    /\ frame_queue' = Tail(frame_queue)
    /\ passed_since_deq' = <<>>
    /\ wk_pc' = "analyze"
    /\ UNCHANGED <<running, frame_skip, frame_counter, result_queue,
                   latest_result, total_analyses, failed_analyses>>
    /\ UNCHANGED <<submitVars, getVars, wk_result, placed, evicted,
                   put_count>>
    /\ UNCHANGED <<tcVars, csVars>>

(* The worker's successful analysis of the frame it holds and the publication *)
(* of the result, taken as one step between two process_frame calls: the      *)
(* mailbox is emptied and the new result put into it.                         *)
WorkerPublish ==
    /\ wk_pc = "analyze"
    /\ total_analyses < MaxAnalyses
    /\ \E o \in AnalysisOutcomes :
          LET r == [seq |-> total_analyses + 1, age |-> o.age,
                    gender |-> o.gender,
                    gender_confidence |-> o.gender_confidence]
          IN  /\ wk_result' = r
              /\ result_queue' = PutNowait(<<>>, r, ResultQueueMaxsize)
              /\ put_count' = [put_count EXCEPT ![r.seq] = @ + 1]
              /\ res_src' = [res_src EXCEPT ![r.seq] = wk_frame]
    /\ total_analyses' = total_analyses + 1
    /\ gr_pub' = TRUE
    /\ wk_pc' = "get"
    /\ UNCHANGED <<running, frame_skip, frame_counter, frame_queue,
                   latest_result, failed_analyses>>
    /\ UNCHANGED <<submitVars, gr_pc, gr_calls, gr_took, gr_last, gr_prev,
                   gr_fresh, wk_frame, placed, passed_since_deq, evicted>>
    /\ UNCHANGED <<tcVars, csState, obs_src>>

OrchestratorInit ==
    /\ now = 0
    /\ pf_ret = "none" /\ pf_result = NoResult /\ pf_time = None
    /\ cache_count = 0 /\ cache_early = FALSE /\ lc_first = None
    /\ pf_waited = FALSE
    /\ pf_cls = "none" /\ pf_conf = 0 /\ pf_submitted = FALSE
    /\ mark_first = None
    /\ op_pc = "idle" /\ op_max = 0 /\ op_attempt = 0 /\ op_wake = 0
    /\ op_ret = "none" /\ op_log = <<>> /\ op_sleeps = 0
    /\ frame_lock = "none" /\ frame_mutex = "none" /\ result_mutex = "none"
    /\ prev_pc = "dead"
    /\ res_src = [n \in 1..(MaxAnalyses + 1) |-> 0] /\ obs_src = <<>>
    /\ cs_op = "none" /\ cs_args = <<>> /\ cs_ret = None
    /\ cs_resets = 0 /\ cs_changed = FALSE

NextOrchestrator ==
    \/ ProcessFrame \/ Tick
    \/ WorkerTake \/ WorkerAnalyzeFail \/ WorkerPublish

(* One process_frame call on a frame that classify_frame is sure about.       *)
ProcessFrameConfident ==
    /\ pf_ret # "stop"
    /\ frame_counter < MaxPipelineFrames
    /\ Len(ages) < MaxHistory
    /\ \E cls \in ClassNames : ProcessFrameGo(cls, 100)

(* One camera long enough in front of a person for several of its frames to   *)
(* pass the frame-skip test of its analyzer.                                  *)
NextPipeline ==
    \/ ProcessFrameConfident \/ Tick
    \/ WorkerTake \/ WorkerAnalyzeFail \/ WorkerPublish

(* ------------------------------------------------------------------------ *)
(* The methods of CameraState, called on a state of any content             *)
(* ------------------------------------------------------------------------ *)
(* The object as a record of its dataclass fields                             *)
Self ==
    [person_detected |-> person_detected,
     session_end_detected |-> session_end_detected,
     detection_start_time |-> detection_start_time,
     session_end_start_time |-> session_end_start_time,
     low_confidence_start |-> low_confidence_start,
     ages |-> ages, genders |-> genders, emotions |-> emotions,
     cached_age |-> cached_age, cached_gender |-> cached_gender,
     cached_gender_confidence |-> cached_gender_confidence]

(* CameraState(): the defaults of the dataclass fields                        *)
CameraState ==
    [person_detected |-> FALSE,
     session_end_detected |-> FALSE,
     detection_start_time |-> None,
     session_end_start_time |-> None,
     low_confidence_start |-> None,
     ages |-> <<>>, genders |-> <<>>, emotions |-> <<>>,
     cached_age |-> 0, cached_gender |-> 0,
     cached_gender_confidence |-> 0]

(* Variant: reset() that leaves the three histories as they are.              *)
reset_KeepsHistories(self) ==
    [self EXCEPT !.person_detected = FALSE,
                 !.session_end_detected = FALSE,
                 !.detection_start_time = None,
                 !.session_end_start_time = None,
                 !.low_confidence_start = None,
                 !.cached_age = 0,
                 !.cached_gender = 0,
                 !.cached_gender_confidence = 0]

(* CameraState.reset(): one assignment or clear() per field                   *)
reset(self) ==
    [self EXCEPT !.person_detected = FALSE,
                 !.session_end_detected = FALSE,
                 !.detection_start_time = None,
                 !.session_end_start_time = None,
                 !.low_confidence_start = None,
                 !.ages = <<>>,
                 !.genders = <<>>,
                 !.emotions = <<>>,
                 !.cached_age = 0,
                 !.cached_gender = 0,
                 !.cached_gender_confidence = 0]

(* CameraState.cache_demographics(age=None, gender=None,                      *)
(* gender_confidence=None); 0 stands for an argument left at None.            *)
cache_demographics(self, age, gender, gender_confidence) ==
    LET pair == CachedGenderAfter(
                    <<self.cached_gender, self.cached_gender_confidence>>,
                    gender, gender_confidence)
    IN  [self EXCEPT !.cached_age = CachedAgeAfter(@, age),
                     !.ages = AgesAfter(@, age),
                     !.cached_gender = pair[1],
                     !.cached_gender_confidence = pair[2],
                     !.genders = GendersAfter(@, gender, gender_confidence)]

(* The fields after a method has run                                          *)
Assign(self) ==
    /\ person_detected' = self.person_detected
    /\ session_end_detected' = self.session_end_detected
    /\ detection_start_time' = self.detection_start_time
    /\ session_end_start_time' = self.session_end_start_time
    /\ low_confidence_start' = self.low_confidence_start
    /\ ages' = self.ages
    /\ genders' = self.genders
    /\ emotions' = self.emotions
    /\ cached_age' = self.cached_age
    /\ cached_gender' = self.cached_gender
    /\ cached_gender_confidence' = self.cached_gender_confidence

(* What a method of CameraState leaves alone                                  *)
MethodFrame ==
    /\ UNCHANGED <<now, pf_ret, pf_result, pf_time, cache_count, cache_early,
                   lc_first, pf_waited, pfVars, obsVars, runVars, openVars,
                   syncVars>>
    /\ UNCHANGED <<analyzerVars, submitVars, getVars, workerVars, histVars,
                   tcVars>>

Reset ==
    /\ cs_resets < MaxResets
    /\ Assign(reset(Self))
    /\ cs_op' = "reset"
    /\ cs_args' = <<>>
    /\ cs_ret' = FALSE
    /\ cs_resets' = cs_resets + 1
    /\ cs_changed' = IF cs_resets = 0 THEN Self # CameraState ELSE cs_changed
    /\ MethodFrame

(* The argument lists of the calls: none given, all three given, and the      *)
(* gender given without its confidence.                                       *)
CacheArgs == { <<0, 0, 0>>, <<2, 2, 1>>, <<2, 2, 0>> }

CacheDemographics ==
    /\ \E a \in CacheArgs :
          /\ a[1] = 0 \/ Len(ages) < MaxHistory
          /\ a[2] = 0 \/ a[3] = 0 \/ Len(genders) < MaxHistory
          /\ Assign(cache_demographics(Self, a[1], a[2], a[3]))
          /\ cs_args' = a
    /\ cs_op' = "cache_demographics"
    /\ cs_ret' = FALSE
    /\ cs_resets' = 0
    /\ cs_changed' = FALSE
    /\ MethodFrame

ShouldAnalyze ==
    /\ \E t \in 0..MaxArg, w \in 0..MaxArg :
          /\ cs_ret' = ShouldAnalyzeDemographics(detection_start_time, t, w)
          /\ cs_args' = <<t, w>>
    /\ cs_op' = "should_analyze_demographics"
    /\ cs_resets' = 0
    /\ cs_changed' = FALSE
    /\ Assign(Self)
    /\ MethodFrame

NextState == Reset \/ CacheDemographics \/ ShouldAnalyze

(* A CameraState of any content: the fields are public and the claims about   *)
(* the methods quantify over every state. The histories are the first samples *)
(* of fixed series in which neighbouring samples differ.                      *)
StampValues == {None, 0, MaxStamp}

AgeHistory(n) == [i \in 1..n |-> 1 + (i % 2)]

GenderHistory(n) == [i \in 1..n |-> <<1 + (i % 2), 1>>]

EmotionHistory(n) == [i \in 1..n |-> "happy"]

ArbitraryCameraState ==
    /\ person_detected \in BOOLEAN
    /\ session_end_detected \in BOOLEAN
    /\ detection_start_time \in StampValues
    /\ session_end_start_time \in {None, MaxStamp}
    /\ low_confidence_start \in {None, MaxStamp}
    /\ ages \in {AgeHistory(n) : n \in 0..MaxHistory}
    /\ genders \in {GenderHistory(n) : n \in 0..MaxHistory}
    /\ emotions \in {EmotionHistory(0), EmotionHistory(1)}
    /\ cached_age \in {0, 1}
    /\ \E pair \in {<<0, 0>>, <<1, 1>>} :
          cached_gender = pair[1] /\ cached_gender_confidence = pair[2]

(* ------------------------------------------------------------------------ *)
(* main(), EmotionAnalysisSystem.initialize, run, should_exit and cleanup    *)
(* ------------------------------------------------------------------------ *)
CameraNames == {"customer", "server"}

(* The camera lists of the SINGLE and the DUAL mode, in configuration order   *)
ActiveCameraLists == { <<"customer">>, <<"customer", "server">> }

(* cam_conf['role']                                                           *)
Role(name) == IF name = "customer" THEN "primary" ELSE "secondary"

(* EmotionAnalysisSystem.__init__, before main() calls run()                  *)
RunInit(cams) ==
    /\ active = cams
    /\ main_pc = "start"
    /\ init_state = [c \in CameraNames |-> "idle"]
    /\ wait_idx = 1
    /\ wait_result = [c \in CameraNames |-> "none"]
    /\ model_load = "none"
    /\ cameras = {}
    /\ video_writers = {}
    /\ analyzers = {}
    /\ camera_states = <<>>
    /\ frame_count = 0
    /\ exit_by_user = FALSE
    /\ init_ret = "none"
    /\ run_ret = "none"
    /\ frames = {}
    /\ todo = <<>>
    /\ loop_end = "none"
    /\ cleaned = FALSE
    /\ exported = FALSE
    /\ exit_ret = FALSE
    /\ exit_time = None
    /\ fails = [c \in CameraNames |-> 0]
    /\ processed = {}
    /\ acquired = <<>>
    /\ released = <<>>

(* What the main thread and the camera initializers leave alone               *)
RunFrame ==
    /\ UNCHANGED <<person_detected, session_end_detected,
                   detection_start_time, session_end_start_time,
                   low_confidence_start, ages, genders, cached_age,
                   cached_gender, cached_gender_confidence, pf_ret, pf_result,
                   pf_time, cache_count, cache_early, lc_first, pf_waited,
                   pfVars, obsVars, emotions, cs_op, cs_args, cs_ret,
                   cs_resets, cs_changed, openVars, syncVars>>
    /\ UNCHANGED <<analyzerVars, submitVars, getVars, workerVars, histVars,
                   tcVars>>

(* _start_async_camera_init: one AsyncCameraInitializer per active camera     *)
StartCameraInit ==
    /\ main_pc = "start"
    /\ init_state' = [c \in CameraNames |->
                         IF \E i \in 1..Len(active) : active[i] = c
                         THEN "opening" ELSE "idle"]
    /\ main_pc' = "load_model"
    /\ UNCHANGED <<active, wait_idx, wait_result, model_load, cameras,
                   video_writers, analyzers, camera_states, frame_count,
                   exit_by_user, init_ret, run_ret, frames, todo, loop_end,
                   cleaned, exported, exit_ret, exit_time, fails, processed>>
    /\ UNCHANGED <<now, acquired, released>>
    /\ RunFrame

(* AsyncCameraInitializer._init_camera on its background thread: the camera   *)
(* is opened and stored, or the error is stored                               *)
InitializerDone(c) ==
    /\ init_state[c] = "opening"
    /\ \E outcome \in {"ready", "error"} :
          init_state' = [init_state EXCEPT ![c] = outcome]
    /\ UNCHANGED <<active, main_pc, wait_idx, wait_result, model_load,
                   cameras, video_writers, analyzers, camera_states,
                   frame_count, exit_by_user, init_ret, run_ret, frames, todo,
                   loop_end, cleaned, exported, exit_ret, exit_time, fails,
                   processed>>
    /\ UNCHANGED <<now, acquired, released>>
    /\ RunFrame

InitializerStep == \E c \in CameraNames : InitializerDone(c)

LoadModelOk ==
    /\ main_pc = "load_model"
    /\ model_load' = "ok"
    /\ main_pc' = "wait_cameras"
    /\ UNCHANGED <<active, init_state, wait_idx, wait_result, cameras,
                   video_writers, analyzers, camera_states, frame_count,
                   exit_by_user, init_ret, run_ret, frames, todo, loop_end,
                   cleaned, exported, exit_ret, exit_time, fails, processed>>
    /\ UNCHANGED <<now, acquired, released>>
    /\ RunFrame

(* load_keras_model raises ModelLoadError: initialize() returns False and     *)
(* run() returns False                                                        *)
LoadModelFail ==
    /\ main_pc = "load_model"
    /\ model_load' = "fail"
    /\ init_ret' = "false"
    /\ run_ret' = "false"
    /\ main_pc' = "returned"
    /\ UNCHANGED <<active, init_state, wait_idx, wait_result, cameras,
                   video_writers, analyzers, camera_states, frame_count,
                   exit_by_user, frames, todo, loop_end, cleaned, exported,
                   exit_ret, exit_time, fails, processed>>
    /\ UNCHANGED <<now, acquired, released>>
    /\ RunFrame

(* wait_for_camera(timeout=10.0) returns the camera                           *)
WaitCameraOk ==
    /\ main_pc = "wait_cameras"
    /\ wait_idx <= Len(active)
    /\ init_state[active[wait_idx]] = "ready"
    /\ cameras' = cameras \cup {active[wait_idx]}
    /\ wait_result' = [wait_result EXCEPT ![active[wait_idx]] = "ok"]
    /\ wait_idx' = wait_idx + 1
    /\ acquired' = Append(acquired, <<"camera", active[wait_idx]>>)
    /\ UNCHANGED <<active, main_pc, init_state, model_load, video_writers,
                   analyzers, camera_states, frame_count, exit_by_user,
                   init_ret, run_ret, frames, todo, loop_end, cleaned,
                   exported, exit_ret, exit_time, fails, processed>>
    /\ UNCHANGED <<now, released>>
    /\ RunFrame

(* Variant: the failure of any camera raises CameraOpenError.                 *)
RaisesCameraOpenError_Always(role) == TRUE

(* if cam_conf['role'] == 'primary': raise CameraOpenError                    *)
RaisesCameraOpenError(role) == role = "primary"

(* wait_for_camera returns None: the initializer stored an error, or it is    *)
(* still opening when the timeout expires                                     *)
WaitCameraNone ==
    /\ main_pc = "wait_cameras"
    /\ wait_idx <= Len(active)
    /\ init_state[active[wait_idx]] \in {"error", "opening"}
    /\ wait_result' =
          [wait_result EXCEPT ![active[wait_idx]] =
              IF init_state[active[wait_idx]] = "error" THEN "error"
              ELSE "timeout"]
    /\ IF RaisesCameraOpenError(Role(active[wait_idx]))
       THEN /\ init_ret' = "false"
            /\ run_ret' = "false"
            /\ main_pc' = "returned"
            /\ UNCHANGED wait_idx
       ELSE /\ wait_idx' = wait_idx + 1
            /\ UNCHANGED <<init_ret, run_ret, main_pc>>
    /\ UNCHANGED <<active, init_state, model_load, cameras, video_writers,
                   analyzers, camera_states, frame_count, exit_by_user,
                   frames, todo, loop_end, cleaned, exported, exit_ret,
                   exit_time, fails, processed>>
    /\ UNCHANGED <<now, acquired, released>>
    /\ RunFrame

(* The per-camera state the main loop reads and writes, fresh; ended_since    *)
(* is history: the time at which session_end_detected last became true        *)
FreshLoopState ==
    [person_detected |-> FALSE, session_end_detected |-> FALSE,
     session_end_start_time |-> None, low_confidence_start |-> None,
     ended_since |-> None]

(* The cameras of a set in configuration order                                *)
InOrder(set) == SelectSeq(active, LAMBDA c : c \in set)

(* The resources of one kind of the cameras of a set, in configuration order  *)
Resources(kind, set) ==
    [i \in 1..Len(InOrder(set)) |-> <<kind, InOrder(set)[i]>>]

(* The rest of initialize(): a CameraState for every active camera, a video   *)
(* writer and a started analyzer for every camera in self.cameras             *)
InitializeRest ==
    /\ main_pc = "wait_cameras"
    /\ wait_idx > Len(active)
    /\ camera_states' =
          [c \in {active[i] : i \in 1..Len(active)} |-> FreshLoopState]
    /\ video_writers' = cameras
    /\ analyzers' = cameras
    /\ acquired' = acquired \o Resources("video_writer", cameras)
                             \o Resources("analyzer", cameras)
    /\ init_ret' = "true"
    /\ main_pc' = "read"
    /\ UNCHANGED <<active, init_state, wait_idx, wait_result, model_load,
                   cameras, frame_count, exit_by_user, run_ret, frames, todo,
                   loop_end, cleaned, exported, exit_ret, exit_time, fails,
                   processed>>
    /\ UNCHANGED <<now, released>>
    /\ RunFrame


(* The head of an iteration: cam.read() for every opened camera; the loop     *)
(* ends when no camera delivered a frame                                      *)
LoopRead ==
    /\ main_pc = "read"
    /\ \E ok \in SUBSET cameras :
          /\ frames' = ok
          /\ fails' = [c \in CameraNames |->
                          IF c \in cameras
                          THEN (IF c \in ok THEN 0 ELSE fails[c] + 1)
                          ELSE fails[c]]
          /\ IF ok = {}
             THEN /\ loop_end' = "no_frames"
                  /\ main_pc' = "ended"
                  /\ UNCHANGED todo
             ELSE /\ todo' = IF frame_count % ClassifyEvery = 0
                             THEN InOrder(ok) ELSE <<>>
                  /\ main_pc' = "process"
                  /\ UNCHANGED loop_end
    /\ UNCHANGED <<active, init_state, wait_idx, wait_result, model_load,
                   cameras, video_writers, analyzers, camera_states,
                   frame_count, exit_by_user, init_ret, run_ret, cleaned,
                   exported, exit_ret, exit_time, processed>>
    /\ UNCHANGED <<now, acquired, released>>
    /\ RunFrame

(* process_frame for the next camera of the iteration returns 'stop'          *)
LoopProcessStop ==
    /\ main_pc = "process"
    /\ todo # <<>>
    /\ \E cls \in ClassNames, conf \in Confidences :
          LowConfidenceStop(cls, conf,
                            camera_states[Head(todo)].low_confidence_start,
                            now)
    /\ processed' = processed \cup {Head(todo)}
    /\ exit_by_user' = TRUE
    /\ loop_end' = "stop"
    /\ main_pc' = "ended"
    /\ UNCHANGED <<active, init_state, wait_idx, wait_result, model_load,
                   cameras, video_writers, analyzers, camera_states,
                   frame_count, init_ret, run_ret, frames, todo, cleaned,
                   exported, exit_ret, exit_time, fails>>
    /\ UNCHANGED <<now, acquired, released>>
    /\ RunFrame

(* process_frame for the next camera of the iteration returns a result or     *)
(* None, having updated the state of the camera                               *)
LoopProcessGo ==
    /\ main_pc = "process"
    /\ todo # <<>>
    /\ \E cls \in ClassNames, conf \in Confidences :
          LET c == Head(todo)
              st == camera_states[c]
              ended == SessionEndAfter(cls, st.session_end_detected)
          IN  /\ ~LowConfidenceStop(cls, conf, st.low_confidence_start, now)
              /\ camera_states' =
                    [camera_states EXCEPT ![c] =
                        [person_detected |-> PersonDetectedAfter(cls),
                         session_end_detected |-> ended,
                         session_end_start_time |->
                             SessionEndStartAfter(cls, st.session_end_detected,
                                                  st.session_end_start_time,
                                                  now),
                         low_confidence_start |->
                             LowConfidenceStartAfter(
                                 cls, conf, st.low_confidence_start, now),
                         ended_since |->
                             IF ~ended THEN None
                             ELSE IF st.session_end_detected
                                  THEN st.ended_since ELSE now]]
    /\ processed' = processed \cup {Head(todo)}
    /\ todo' = Tail(todo)
    /\ UNCHANGED <<active, main_pc, init_state, wait_idx, wait_result,
                   model_load, cameras, video_writers, analyzers, frame_count,
                   exit_by_user, init_ret, run_ret, frames, loop_end, cleaned,
                   exported, exit_ret, exit_time, fails>>
    /\ UNCHANGED <<now, acquired, released>>
    /\ RunFrame

(* The frames are drawn and recorded and cv2.waitKey returns 'q'              *)
LoopKeyQuit ==
    /\ main_pc = "process"
    /\ todo = <<>>
    /\ exit_by_user' = TRUE
    /\ loop_end' = "quit"
    /\ main_pc' = "ended"
    /\ UNCHANGED <<active, init_state, wait_idx, wait_result, model_load,
                   cameras, video_writers, analyzers, camera_states,
                   frame_count, init_ret, run_ret, frames, todo, cleaned,
                   exported, exit_ret, exit_time, fails, processed>>
    /\ UNCHANGED <<now, acquired, released>>
    /\ RunFrame

(* Variant: the session ends only when every camera asks for it.              *)
should_exit_AllCameras(states, current_time) ==
    \A c \in DOMAIN states :
        /\ states[c].session_end_detected
        /\ states[c].session_end_start_time # None
        /\ current_time - states[c].session_end_start_time
               > SessionEndExitDelay

(* EmotionAnalysisSystem.should_exit (time.time() is never 0, so a set        *)
(* timestamp is truthy)                                                       *)
should_exit(states, current_time) ==
    \E c \in DOMAIN states :
        /\ states[c].session_end_detected
        /\ states[c].session_end_start_time # None
        /\ current_time - states[c].session_end_start_time
               > SessionEndExitDelay

(* No key was pressed: self.should_exit() is called                           *)
LoopExitCheck ==
    /\ main_pc = "process"
    /\ todo = <<>>
    /\ exit_ret' = should_exit(camera_states, now)
    /\ exit_time' = now
    /\ main_pc' = "exit_checked"
    /\ UNCHANGED <<active, init_state, wait_idx, wait_result, model_load,
                   cameras, video_writers, analyzers, camera_states,
                   frame_count, exit_by_user, init_ret, run_ret, frames, todo,
                   loop_end, cleaned, exported, fails, processed>>
    /\ UNCHANGED <<now, acquired, released>>
    /\ RunFrame

(* if self.should_exit(): break                                               *)
LoopBreak ==
    /\ main_pc = "exit_checked"
    /\ exit_ret
    /\ loop_end' = "session_end"
    /\ main_pc' = "ended"
    /\ UNCHANGED <<active, init_state, wait_idx, wait_result, model_load,
                   cameras, video_writers, analyzers, camera_states,
                   frame_count, exit_by_user, init_ret, run_ret, frames, todo,
                   cleaned, exported, exit_ret, exit_time, fails, processed>>
    /\ UNCHANGED <<now, acquired, released>>
    /\ RunFrame

(* self.frame_count += 1 and the next iteration                               *)
LoopNext ==
    /\ main_pc = "exit_checked"
    /\ ~exit_ret
    /\ frame_count < MaxIterations
    /\ frame_count' = frame_count + 1
    /\ main_pc' = "read"
    /\ UNCHANGED <<active, init_state, wait_idx, wait_result, model_load,
                   cameras, video_writers, analyzers, camera_states,
                   exit_by_user, init_ret, run_ret, frames, todo, loop_end,
                   cleaned, exported, exit_ret, exit_time, fails, processed>>
    /\ UNCHANGED <<now, acquired, released>>
    /\ RunFrame

(* After the loop run() returns True                                          *)
RunReturn ==
    /\ main_pc = "ended"
    /\ run_ret' = "true"
    /\ main_pc' = "returned"
    /\ UNCHANGED <<active, init_state, wait_idx, wait_result, model_load,
                   cameras, video_writers, analyzers, camera_states,
                   frame_count, exit_by_user, init_ret, frames, todo,
                   loop_end, cleaned, exported, exit_ret, exit_time, fails,
                   processed>>
    /\ UNCHANGED <<now, acquired, released>>
    /\ RunFrame

(* main(): system.cleanup()                                                   *)
Cleanup ==
    /\ main_pc = "returned"
    /\ cleaned' = TRUE
    /\ released' = Resources("analyzer", analyzers)
                      \o Resources("camera", cameras)
                      \o Resources("video_writer", video_writers)
    /\ main_pc' = "cleaned"
    /\ UNCHANGED <<active, init_state, wait_idx, wait_result, model_load,
                   cameras, video_writers, analyzers, camera_states,
                   frame_count, exit_by_user, init_ret, run_ret, frames, todo,
                   loop_end, exported, exit_ret, exit_time, fails, processed>>
    /\ UNCHANGED <<now, acquired>>
    /\ RunFrame

(* main(): if success and not system.exit_by_user: system.post_process(),     *)
(* which ends with export_json_result                                         *)
PostProcess ==
    /\ main_pc = "cleaned"
    /\ exported' = (run_ret = "true" /\ ~exit_by_user)
    /\ main_pc' = "done"
    /\ UNCHANGED <<active, init_state, wait_idx, wait_result, model_load,
                   cameras, video_writers, analyzers, camera_states,
                   frame_count, exit_by_user, init_ret, run_ret, frames, todo,
                   loop_end, cleaned, exit_ret, exit_time, fails, processed>>
    /\ UNCHANGED <<now, acquired, released>>
    /\ RunFrame

(* The passing of time while the main loop runs                               *)
RunTick ==
    /\ main_pc \in {"read", "process", "exit_checked"}
    /\ now < MaxRunTime
    /\ now' = now + 1
    /\ UNCHANGED runVars
    /\ RunFrame

NextRun ==
    \/ StartCameraInit \/ InitializerStep \/ LoadModelOk \/ LoadModelFail
    \/ WaitCameraOk \/ WaitCameraNone \/ InitializeRest
    \/ LoopRead \/ LoopProcessStop \/ LoopProcessGo \/ LoopKeyQuit
    \/ LoopExitCheck \/ LoopBreak \/ LoopNext
    \/ RunReturn \/ Cleanup \/ PostProcess \/ RunTick

(* if self.should_exit(): break, for the one camera; the main loop has ended  *)
(* once a process_frame call returned 'stop' or should_exit() returned true.  *)
SessionEndCheck ==
    /\ ~exit_ret
    /\ pf_ret # "stop"
    /\ exit_ret' = should_exit([c \in {"customer"} |-> Self], now)
    /\ UNCHANGED <<active, main_pc, init_state, wait_idx, wait_result,
                   model_load, cameras, video_writers, analyzers,
                   camera_states, frame_count, exit_by_user, init_ret,
                   run_ret, frames, todo, loop_end, cleaned, exported,
                   exit_time, fails, processed>>
    /\ UNCHANGED <<now, acquired, released>>
    /\ RunFrame

(* One camera in the main loop until the loop ends                            *)
NextSession ==
    \/ (~exit_ret /\ ProcessFrame)
    \/ (~exit_ret /\ Tick)
    \/ SessionEndCheck

(* ------------------------------------------------------------------------ *)
(* utils.camera.open_camera_with_retry(camera_id, max_retries, retry_delay)   *)
(* ------------------------------------------------------------------------ *)
(* What a call of open_camera_with_retry leaves alone                         *)
OpenFrame ==
    /\ UNCHANGED <<person_detected, session_end_detected,
                   detection_start_time, session_end_start_time,
                   low_confidence_start, ages, genders, cached_age,
                   cached_gender, cached_gender_confidence, pf_ret, pf_result,
                   pf_time, cache_count, cache_early, lc_first, pf_waited,
                   pfVars, obsVars, emotions, cs_op, cs_args, cs_ret,
                   cs_resets, cs_changed, runVars, syncVars>>
    /\ UNCHANGED <<analyzerVars, submitVars, getVars, workerVars, histVars,
                   tcVars>>

(* The call: for attempt in range(max_retries), with max_retries >= 1         *)
OpenCall ==
    /\ op_pc = "idle"
    /\ \E m \in 1..MaxRetries : op_max' = m
    /\ op_attempt' = 0
    /\ op_pc' = "attempt"
    /\ UNCHANGED <<now, op_wake, op_ret, op_log, op_sleeps>>
    /\ OpenFrame

(* cap = cv2.VideoCapture(camera_id) with cap.isOpened(): return cap          *)
OpenAttemptOk ==
    /\ op_pc = "attempt"
    /\ op_log' = Append(op_log, [t |-> now, ok |-> TRUE])
    /\ op_ret' = "cap"
    /\ op_pc' = "done"
    /\ UNCHANGED <<now, op_max, op_attempt, op_wake, op_sleeps>>
    /\ OpenFrame

(* Variant: the last attempt is followed by a sleep too.                      *)
RetriesAgain_AfterLast(attempt, max_retries) == attempt < max_retries

(* if attempt < max_retries - 1                                               *)
RetriesAgain(attempt, max_retries) == attempt < max_retries - 1

(* VideoCapture raises or the capture is not opened: the except branch, which *)
(* calls time.sleep(retry_delay) or raises CameraOpenError                    *)
OpenAttemptFail ==
    /\ op_pc = "attempt"
    /\ op_log' = Append(op_log, [t |-> now, ok |-> FALSE])
    /\ IF RetriesAgain(op_attempt, op_max)
       THEN /\ op_pc' = "sleep"
            /\ op_wake' = now + RetryDelay
            /\ op_sleeps' = op_sleeps + 1
            /\ UNCHANGED op_ret
       ELSE /\ op_pc' = "done"
            /\ op_ret' = "CameraOpenError"
            /\ UNCHANGED <<op_wake, op_sleeps>>
    /\ UNCHANGED <<now, op_max, op_attempt>>
    /\ OpenFrame

(* time.sleep returns, not before retry_delay has passed, and the for loop    *)
(* goes on to its next attempt; a loop that has run out returns None          *)
OpenSleepDone ==
    /\ op_pc = "sleep"
    /\ now >= op_wake
    /\ op_attempt' = op_attempt + 1
    /\ IF op_attempt + 1 < op_max
       THEN /\ op_pc' = "attempt"
            /\ UNCHANGED op_ret
       ELSE /\ op_pc' = "done"
            /\ op_ret' = "None"
    /\ UNCHANGED <<now, op_max, op_wake, op_log, op_sleeps>>
    /\ OpenFrame

(* The passing of time during the call                                        *)
OpenTick ==
    /\ op_pc \in {"attempt", "sleep"}
    /\ now < MaxOpenTime
    /\ now' = now + 1
    /\ UNCHANGED openVars
    /\ OpenFrame

(* A camera opened with retries, and a ThreadedCamera started, which makes a  *)
(* single attempt                                                             *)
NextOpen ==
    \/ OpenCall \/ OpenAttemptOk \/ OpenAttemptFail \/ OpenSleepDone
    \/ OpenTick
    \/ CameraStart \/ CameraStartFail

(* ------------------------------------------------------------------------ *)
(* Specifications                                                             *)
(* ------------------------------------------------------------------------ *)
(* A freshly constructed analyzer, camera and camera state                    *)
Init ==
    /\ AnalyzerInit /\ CameraInit /\ CameraStateInit /\ OrchestratorInit
    /\ RunInit(<<"customer">>)

(* The state in which initialize() leaves one camera of the orchestrator:     *)
(* its analyzer constructed with frame_skip=5 and started.                    *)
InitOrchestrator ==
    /\ running = TRUE
    /\ frame_skip = OrchestratorFrameSkip
    /\ frame_counter = 0
    /\ frame_queue = <<>>
    /\ result_queue = <<>>
    /\ latest_result = NoResult
    /\ total_analyses = 0
    /\ failed_analyses = 0
    /\ sub_pc = "idle" /\ sub_steps = 0 /\ sub_calls = 0
    /\ gr_pc = "idle" /\ gr_calls = 0 /\ gr_last = NoResult
    /\ gr_prev = NoResult /\ gr_pub = FALSE /\ gr_fresh = FALSE
    /\ gr_took = FALSE
    /\ wk_pc = "get" /\ wk_frame = 0 /\ wk_result = NoResult
    /\ placed = {} /\ passed_since_deq = <<>> /\ evicted = 0
    /\ put_count = [n \in 1..(MaxAnalyses + 1) |-> 0]
    /\ CameraInit /\ CameraStateInit /\ OrchestratorInit
    /\ RunInit(<<"customer">>)

SpecAnalyzer == Init /\ [][NextAnalyzer]_vars

SpecCamera == Init /\ [][NextCamera]_vars

SpecOrchestrator == InitOrchestrator /\ [][NextOrchestrator]_vars

SpecPipeline == InitOrchestrator /\ [][NextPipeline]_vars

SpecSession == InitOrchestrator /\ [][NextSession]_vars

SpecOpen == Init /\ [][NextOpen]_vars

SpecDelivering == Init /\ [][NextDelivering]_vars

SpecRestart == Init /\ [][NextRestart]_vars

SpecLocks == Init /\ [][NextLocks]_vars

(* The analyzer left running: the worker thread is scheduled again and again, *)
(* the external analysis call returns, and the main loop keeps calling        *)
(* get_result.                                                                *)
SpecLive ==
    /\ Init
    /\ [][NextLive]_vars
    /\ WF_vars(WorkerStep)
    /\ WF_vars(GetResultCall \/ GetResultCallAgain \/ GetResultStep)

(* Any CameraState, on which its methods are called in any order              *)
InitState ==
    /\ AnalyzerInit /\ CameraInit /\ OrchestratorInit /\ ArbitraryCameraState
    /\ RunInit(<<"customer">>)

SpecState == InitState /\ [][NextState]_vars

(* main() in the SINGLE and in the DUAL mode                                  *)
InitRun ==
    /\ AnalyzerInit /\ CameraInit /\ CameraStateInit /\ OrchestratorInit
    /\ \E cams \in ActiveCameraLists : RunInit(cams)

SpecRun == InitRun /\ [][NextRun]_vars

(* ------------------------------------------------------------------------ *)
(* Properties of the analyzer                                                 *)
(* ------------------------------------------------------------------------ *)
Multiples(n, skip) == {k \in 1..n : k % skip = 0}

LastN(q, n) == SubSeq(q, Len(q) - n + 1, Len(q))

C4_AtMostOneMailbox ==
    /\ Len(result_queue) <= 1
    /\ \A n \in DOMAIN put_count : put_count[n] <= 1
    /\ (gr_pc = "idle" /\ gr_calls >= 2 /\ ~gr_fresh) => gr_last = gr_prev

C4_Witness ==
    /\ gr_pc = "idle"
    /\ gr_calls >= 2
    /\ ~gr_fresh
    /\ gr_last # NoResult
    /\ gr_last = gr_prev

(* C6: a submit_frame call takes at most four steps of its own, and each of   *)
(* its steps can be taken in whatever state the worker and the queue are: it  *)
(* never waits; on a full queue it goes on by evicting a frame.               *)
C6_NonBlockingSubmit ==
    /\ sub_steps <= 4
    /\ sub_pc = "full" => ENABLED SubmitFull
    /\ sub_pc = "evict" => ENABLED SubmitEvict
    /\ sub_pc = "put" => ENABLED SubmitPut

C6_Witness ==
    /\ sub_pc = "idle"
    /\ sub_steps = 4
    /\ evicted > 0
    /\ Len(frame_queue) = FrameQueueMaxsize
    /\ wk_pc = "analyze"

(* C7: once more frames than the capacity of the frame queue have passed the  *)
(* frame-skip test with no dequeue by the worker in between, the queue holds  *)
(* exactly the newest of them, as many as its capacity, in submission order;  *)
(* evicted frames are counted neither as analyses nor as failures: every      *)
(* placed frame is queued, evicted, in analysis or counted in total_analyses. *)
C7_NewestFramesKept ==
    /\ (sub_pc = "idle" /\ Len(passed_since_deq) > FrameQueueMaxsize) =>
          frame_queue = LastN(passed_since_deq, FrameQueueMaxsize)
    /\ Cardinality(placed) = Len(frame_queue) + evicted + total_analyses
                             + (IF wk_pc = "analyze" THEN 1 ELSE 0)
    /\ failed_analyses <= total_analyses

C7_Witness ==
    /\ sub_pc = "idle"
    /\ Len(passed_since_deq) > FrameQueueMaxsize
    /\ evicted > 0
    /\ total_analyses = 0
    /\ failed_analyses = 0

C1_MutualExclusion == ~(person_detected /\ session_end_detected)

C1_Witness ==
    /\ session_end_detected
    /\ ~person_detected
    /\ detection_start_time # None
    /\ session_end_start_time > detection_start_time

(* C2: detection_start_time is set if and only if person_detected is true.    *)
C2_StartTimeIffDetected ==
    (detection_start_time # None) <=> person_detected

(* C8: in one presence episode demographics are cached by a single caching    *)
(* event, made when the elapsed time reaches the demographic window: there is *)
(* no caching event before the end of the window and never a second one.      *)
C8_SingleCachingAtBoundary ==
    person_detected => (~cache_early /\ cache_count <= 1)

(* C9: a result returned by a process_frame call made, during a presence      *)
(* episode, after the demographic window carries the cached age, gender and   *)
(* gender confidence.                                                         *)
C9_CachedDemographicsAfterWindow ==
    (/\ pf_ret = "result"
     /\ person_detected
     /\ pf_time - detection_start_time > DEMOGRAPHIC_ANALYSIS_DURATION_SEC)
    => /\ pf_result.age = cached_age
       /\ pf_result.gender = cached_gender
       /\ pf_result.gender_confidence = cached_gender_confidence

(* C10: in a run of consecutive low-confidence presence classifications that  *)
(* began at lc_first, a process_frame call returns 'stop' exactly when it is  *)
(* made more than the low-confidence timeout after lc_first.                  *)
C10_LowConfidenceAbort ==
    lc_first # None =>
        ((pf_ret = "stop") <=>
            (pf_time - lc_first > LOW_CONFIDENCE_TIMEOUT_SEC))


(* C14: a failed analysis (the external call raised or found no subject)     *)
(* raises failed_analyses and total_analyses by exactly one each, leaves the  *)
(* result queue and the retained latest result as they were, keeps the        *)
(* analyzer running, and puts the worker back at the head of its loop, where  *)
(* it takes the next queued frame.                                            *)
C14_FailureAbsorbed ==
    [][ /\ failed_analyses' # failed_analyses =>
              /\ failed_analyses' = failed_analyses + 1
              /\ total_analyses' = total_analyses + 1
              /\ result_queue' = result_queue
              /\ latest_result' = latest_result
              /\ running' = running
              /\ frame_queue' = frame_queue
              /\ wk_pc = "analyze"
              /\ wk_pc' = "get"
        /\ (wk_pc = "analyze" /\ wk_pc' # "analyze") =>
              total_analyses' = total_analyses + 1 ]_vars

(* A frame failed while a published result was waiting in the result queue,   *)
(* and the worker has taken the next frame.                                   *)
C14_Witness ==
    /\ failed_analyses = 1
    /\ total_analyses = 2
    /\ Len(result_queue) = 1
    /\ wk_pc = "analyze"

(* C12: get_elapsed_time(now) is None until person_detected first becomes     *)
(* true, and once it has a value that value never decreases from one state to *)
(* the next (no call of process_frame resets the state).                      *)
C12_ElapsedMonotone ==
    [][ LET before == get_elapsed_time(detection_start_time, now)
            after == get_elapsed_time(detection_start_time', now')
        IN  /\ (before = None /\ ~person_detected') => after = None
            /\ before # None => after >= before ]_vars

(* C13: no process_frame call of the main thread waits on the result queue:   *)
(* a call that finds no new result returns at once.                           *)
C13_MainNeverWaits == ~pf_waited

(* ------------------------------------------------------------------------ *)
(* Properties of the CameraState methods                                      *)
(* ------------------------------------------------------------------------ *)
(* C17: after reset() every field has the value it has in a freshly           *)
(* constructed CameraState, whatever the state was before, and a second       *)
(* reset() leaves the state of the first.                                     *)
C17_ResetRestoresFresh == cs_op = "reset" => Self = CameraState

(* reset() was called twice in a row and the first call changed the state.    *)
C17_Witness == cs_op = "reset" /\ cs_resets = 2 /\ cs_changed

(* C18: cache_demographics() without arguments sets the cached age to the     *)
(* last entry of ages and the cached gender and confidence to the last entry  *)
(* of genders.                                                                *)
C18_CacheNoArgsTakesLatest ==
    (cs_op = "cache_demographics" /\ cs_args = <<0, 0, 0>>) =>
        /\ Len(ages) > 0 => cached_age = ages[Len(ages)]
        /\ Len(genders) > 0 =>
              <<cached_gender, cached_gender_confidence>>
                  = genders[Len(genders)]

(* C19: should_analyze_demographics(e, w) is True exactly when e <= w, in     *)
(* every state.                                                               *)
C19_ShouldAnalyzeIffWithinThreshold ==
    cs_op = "should_analyze_demographics" =>
        (cs_ret <=> cs_args[1] <= cs_args[2])

(* ------------------------------------------------------------------------ *)
(* Properties of the main loop                                                *)
(* ------------------------------------------------------------------------ *)
(* C11: should_exit() returns true exactly when some tracked camera has had   *)
(* session_end_detected set without interruption for more than 3 s, whatever  *)
(* the state of the other cameras.                                            *)
C11_ExitIffSessionEndHeld ==
    main_pc = "exit_checked" =>
        (exit_ret <=>
            \E c \in DOMAIN camera_states :
                /\ camera_states[c].session_end_detected
                /\ exit_time - camera_states[c].ended_since
                       > SessionEndExitDelay)

(* should_exit() returned true for the session-end mark of the customer       *)
(* camera while the server camera reported presence.                          *)
C11_Witness ==
    /\ Len(active) = 2
    /\ main_pc = "exit_checked"
    /\ exit_ret
    /\ camera_states["customer"].session_end_detected
    /\ camera_states["server"].person_detected

(* C15: the main loop does not end on failed reads unless some camera has     *)
(* failed three or more reads in a row.                                       *)
C15_ReadFailuresAbsorbed ==
    loop_end = "no_frames" => \E c \in cameras : fails[c] >= 3

(* A camera of the active list is primary and wait_for_camera returned None   *)
(* for it.                                                                    *)
PrimaryFailed ==
    \E i \in 1..Len(active) :
        /\ Role(active[i]) = "primary"
        /\ wait_result[active[i]] \in {"error", "timeout"}

(* C16: initialize() fails when the model fails to load or the primary camera *)
(* fails or times out, and only then; when it succeeds, the cameras, video    *)
(* writers, analyzers, frames and process_frame calls are those of exactly    *)
(* the cameras whose initializer delivered a camera in time.                  *)
C16_InitializeOutcome ==
    /\ (model_load = "fail" \/ PrimaryFailed) => init_ret = "false"
    /\ init_ret = "false" => (model_load = "fail" \/ PrimaryFailed)
    /\ init_ret = "true" =>
          /\ cameras = {c \in CameraNames : wait_result[c] = "ok"}
          /\ video_writers = cameras
          /\ analyzers = cameras
          /\ frames \subseteq cameras
          /\ processed \subseteq cameras

(* The server camera timed out, initialize() succeeded and the loop has       *)
(* processed a frame of the customer camera.                                  *)
C16_Witness ==
    /\ init_ret = "true"
    /\ wait_result["server"] = "timeout"
    /\ cameras = {"customer"}
    /\ processed = {"customer"}

(* C20: when the main loop ended on a 'stop' of process_frame,                *)
(* analysis_result.json has been written by the time main() is through.       *)
C20_ExportAfterStop ==
    (main_pc = "done" /\ loop_end = "stop") => exported

(* ------------------------------------------------------------------------ *)
(* Properties of the result mailbox                                           *)
(* ------------------------------------------------------------------------ *)
(* The worker is not in the middle of an analysis or a publication            *)
WorkerIdle == wk_pc \in {"get", "wait", "dead"}

(* C28: successive get_result calls never return an older result after a      *)
(* newer one; the latest-result cache and the mailbox only ever move to newer *)
(* results, the mailbox holding only results newer than the cache; and once   *)
(* the worker is idle the newest result produced is in the mailbox or, when   *)
(* the mailbox is empty, is the result the last get_result(0) call returned.  *)
C28_ResultsNeverGoBack ==
    /\ [](gr_prev.seq <= gr_last.seq)
    /\ [](\A i \in 1..Len(result_queue) :
              result_queue[i].seq > latest_result.seq)
    /\ [][latest_result'.seq >= latest_result.seq]_vars
    /\ [][(Len(result_queue) > 0 /\ Len(result_queue') > 0) =>
              Head(result_queue').seq >= Head(result_queue).seq]_vars
    /\ [](WorkerIdle /\ Len(result_queue) > 0 =>
              result_queue[Len(result_queue)] = wk_result)
    /\ [](WorkerIdle /\ Len(result_queue) = 0 /\ gr_pc = "idle"
              /\ gr_calls > 0 => gr_last = wk_result)

(* Two results were produced, two get_result calls returned the first and     *)
(* then the second, and the worker is idle.                                   *)
C28_Witness ==
    /\ total_analyses = 2
    /\ gr_pc = "idle"
    /\ gr_prev.seq = 1
    /\ gr_last.seq = 2
    /\ wk_pc = "get"

(* C29: once stop() has cleared the running flag the worker dequeues no       *)
(* further frame: every step in which the worker takes a frame from the frame *)
(* queue is taken with the flag set.                                          *)
C29_NoDequeueAfterStop ==
    [][(wk_pc = "wait" /\ wk_pc' = "analyze") => running]_vars

(* C23: after a process_frame call that classified the frame as neither the  *)
(* presence class nor the session-end marker, both flags are false and both   *)
(* start timestamps are None; the call leaves the histories as they were.     *)
C23_UnrecognizedResetsEpisode ==
    /\ [](pf_cls \notin {"none", "Class 1", "Class 2"} =>
             /\ ~person_detected
             /\ ~session_end_detected
             /\ detection_start_time = None
             /\ session_end_start_time = None)
    /\ [][pf_cls' \notin {"none", "Class 1", "Class 2"} =>
             /\ ages' = ages
             /\ genders' = genders
             /\ emotions' = emotions]_vars

(* C24: person_detected goes from false to true, and detection_start_time is  *)
(* stamped, only in a call that classified the frame as the presence class    *)
(* with full confidence; a presence classification below full confidence      *)
(* leaves both as they were.                                                  *)
C24_PresenceOnlyAtFullConfidence ==
    [][ /\ (~person_detected /\ person_detected') =>
              (pf_cls' = "Class 1" /\ pf_conf' >= 100)
        /\ detection_start_time' # detection_start_time =>
              (pf_cls' = "Class 1" /\ pf_conf' >= 100) ]_vars

(* C25: a call returns 'stop' only more than the low-confidence timeout after *)
(* the first of an unbroken run of low-confidence presence classifications,   *)
(* and after a call with any other classification the low-confidence timer is *)
(* cleared.                                                                   *)
C25_AbortOnlyAfterUnbrokenRun ==
    /\ pf_ret = "stop" =>
          (lc_first # None /\ pf_time - lc_first > LOW_CONFIDENCE_TIMEOUT_SEC)
    /\ (pf_cls # "none" /\ ~(pf_cls = "Class 1" /\ pf_conf < 100)) =>
          low_confidence_start = None

(* C26: a process_frame call hands its frame to analyzer.submit_frame if and  *)
(* only if, after the call, person_detected is true and more than the         *)
(* presence-confirmation delay has passed since detection_start_time.         *)
C26_SubmitsIffConfirmed ==
    pf_time # None =>
        (pf_submitted <=>
            (/\ person_detected
             /\ detection_start_time # None
             /\ pf_time - detection_start_time > PRESENCE_DETECTION_DELAY_SEC))

(* C26, amended: the same of every call that does not return 'stop'; a call   *)
(* that returns 'stop' submits nothing; and a frame classified as the         *)
(* session-end marker or as unrecognized is never submitted.                  *)
C26_SubmitsIffConfirmedUnlessAbort ==
    /\ (pf_time # None /\ pf_ret # "stop") =>
          (pf_submitted <=>
              (/\ person_detected
               /\ detection_start_time # None
               /\ pf_time - detection_start_time
                     > PRESENCE_DETECTION_DELAY_SEC))
    /\ pf_ret = "stop" => ~pf_submitted
    /\ pf_cls # "Class 1" => ~pf_submitted

(* A frame submitted by a call made more than 3 s into a presence episode,    *)
(* and placed on the frame queue.                                             *)
C26_Witness ==
    /\ pf_submitted
    /\ pf_ret # "stop"
    /\ person_detected
    /\ pf_time - detection_start_time = PRESENCE_DETECTION_DELAY_SEC + 1
    /\ frame_counter = 1

(* C22: for one camera the analysis results are computed from frames in the  *)
(* order of their submission, and the observations appended to the history    *)
(* come from frames in that order too: none from a later frame stands before  *)
(* one from an earlier frame.                                                 *)
C22_SubmissionOrderKept ==
    /\ \A m, n \in DOMAIN res_src :
          (m < n /\ res_src[m] # 0 /\ res_src[n] # 0) => res_src[m] < res_src[n]
    /\ \A i, j \in DOMAIN obs_src : i < j => obs_src[i] <= obs_src[j]
    /\ Len(obs_src) = Len(ages)
    /\ Len(genders) <= Len(obs_src)

(* Observations from two different frames, both in the history                *)
C22_Witness ==
    /\ Len(ages) = 2
    /\ obs_src = <<OrchestratorFrameSkip, 2 * OrchestratorFrameSkip>>

(* C27: should_exit() turns true for a camera only more than 3 s after the    *)
(* first of an unbroken run of session-end classifications of that camera: a  *)
(* presence or unrecognized classification clears session_end_detected, and   *)
(* the flag, when set, carries the timestamp of the first marker of the       *)
(* current run.                                                               *)
C27_ExitOnlyAfterUnbrokenMark ==
    /\ [][(~exit_ret /\ exit_ret') =>
             /\ pf_cls = "Class 2"
             /\ mark_first # None
             /\ now - mark_first > SessionEndExitDelay]_vars
    /\ []((pf_ret # "stop" /\ pf_cls \in {"Class 1", "Class 3"}) =>
             ~session_end_detected)
    /\ []((pf_ret # "stop" /\ session_end_detected) =>
             session_end_start_time = mark_first)

(* The exit fired on a marker that came after a presence classification, more *)
(* than 3 s after that marker.                                                *)
C27_Witness ==
    /\ exit_ret
    /\ detection_start_time = 0
    /\ mark_first = 1
    /\ now = mark_first + SessionEndExitDelay + 1

(* The positions of the resources of one kind in a log                       *)
Positions(log, kind) == {i \in DOMAIN log : log[i][1] = kind}

(* C21: cleanup() stops every analyzer before it stops any camera, and        *)
(* releases the resources kind by kind in the reverse of the order in which   *)
(* initialize() acquired them: of two kinds, the one acquired later is        *)
(* released first.                                                            *)
C21_OrderlyShutdown ==
    cleaned =>
        /\ \A i \in Positions(released, "analyzer"),
              j \in Positions(released, "camera") : i < j
        /\ \A i, j \in DOMAIN released :
              (i < j /\ released[i][1] # released[j][1]) =>
                  \A p \in Positions(acquired, released[i][1]),
                     q \in Positions(acquired, released[j][1]) : p > q

(* C30: a camera is opened in at most max_retries attempts with one sleep of  *)
(* retry_delay between two consecutive attempts; the call returns the capture *)
(* on the first attempt that succeeds, and raises CameraOpenError only when   *)
(* max_retries attempts have failed. A ThreadedCamera is running exactly when *)
(* its single attempt succeeded.                                              *)
C30_BoundedRetry ==
    /\ Len(op_log) <= op_max
    /\ \A i \in 1..(Len(op_log) - 1) :
          /\ ~op_log[i].ok
          /\ op_log[i + 1].t - op_log[i].t >= RetryDelay
    /\ op_pc \in {"attempt", "sleep"} => op_sleeps = Len(op_log)
    /\ op_pc = "done" =>
          /\ op_sleeps = Len(op_log) - 1
          /\ op_ret \in {"cap", "CameraOpenError"}
          /\ op_ret = "cap" <=> op_log[Len(op_log)].ok
          /\ op_ret = "CameraOpenError" => Len(op_log) = op_max
    /\ cam_running => cam_capture = "open"
    /\ cam_capture = "closed" => ~cam_running

(* The call raised after its third failed attempt                             *)
C30_Witness ==
    /\ op_pc = "done"
    /\ op_ret = "CameraOpenError"
    /\ op_max = 3
    /\ Len(op_log) = 3
    /\ op_sleeps = 2

(* ------------------------------------------------------------------------ *)
(* Properties of the aggregation of results                                   *)
(* ------------------------------------------------------------------------ *)
(* C31: every process_frame call that collects an analysis result adds an     *)
(* emotion to the emotions history of the camera, so that the history is not  *)
(* empty once a result has been collected.                                    *)
C31_CollectedResultRecorded ==
    pf_ret = "result" => Len(emotions) > 0

(* C33: no analysis result contributes more than one observation to the       *)
(* histories of the camera: the observations appended to ages and genders     *)
(* come from pairwise different analysis results, however many process_frame  *)
(* calls are made before the next result arrives.                             *)
C33_OneObservationPerResult ==
    \A i, j \in 1..Len(obs_src) : i # j => obs_src[i] # obs_src[j]

(* C34: the cached demographics and the ages and genders histories change     *)
(* only in a process_frame call after which person_detected is true with more *)
(* than the presence-confirmation delay elapsed since detection_start_time;   *)
(* a call that classified the frame as session-end marker or as unrecognized  *)
(* leaves them as they were.                                                  *)
C34_RecordsOnlyWhilePresent ==
    [][ (\/ ages' # ages
         \/ genders' # genders
         \/ cached_age' # cached_age
         \/ cached_gender' # cached_gender
         \/ cached_gender_confidence' # cached_gender_confidence) =>
            /\ pf_cls' = "Class 1"
            /\ person_detected'
            /\ detection_start_time' # None
            /\ now - detection_start_time' > PRESENCE_DETECTION_DELAY_SEC
      ]_vars

(* C35: whenever submit_frame removes a frame from the frame queue, the queue *)
(* holds FrameQueueMaxsize frames at that moment.                             *)
C35_EvictsOnlyWhenFull ==
    [][evicted' > evicted => Len(frame_queue) >= FrameQueueMaxsize]_vars

(* C37: once cleanup() has run, every camera that a background initializer    *)
(* started has been stopped by it, whether initialize() succeeded, failed on  *)
(* the model or on the primary camera, or gave up waiting for the camera.     *)
C37_StartedCamerasStopped ==
    cleaned =>
        \A c \in CameraNames :
            init_state[c] = "ready" =>
                \E i \in 1..Len(released) : released[i] = <<"camera", c>>

(* ------------------------------------------------------------------------ *)
(* Properties of the threads of the frame source                              *)
(* ------------------------------------------------------------------------ *)
(* C38: stop() releases the device handle and clears it only when the capture *)
(* thread has left its loop, so never while the thread is inside a read.      *)
C38_ReleaseAfterCaptureEnded ==
    [][(cam_capture # "none" /\ cam_capture' = "none") =>
           cap_pc = "dead"]_vars

(* C39: with a device that delivers a frame on every read, every read() made  *)
(* once start() has returned True returns the success flag with a frame, the  *)
(* first one included.                                                        *)
C39_ReadSucceedsOnceStarted ==
    [][(rd_calls' = rd_calls + 1 /\ cam_running) =>
           (cam_status /\ rd_last' # 0)]_vars

(* ------------------------------------------------------------------------ *)
(* Properties of the threads of the analyzer                                  *)
(* ------------------------------------------------------------------------ *)
(* C36: whatever sequence of start() and stop() calls is made, at most one    *)
(* worker thread is inside the loop that consumes the frame queue and         *)
(* publishes results.                                                         *)
C36_SingleWorker ==
    ~(wk_pc \notin {"dead", "get"} /\ prev_pc \notin {"dead", "get"})

(* C40: while the analyzer stays running and the analysis call returns, no    *)
(* frame stays in the frame queue for ever, a frame leaves the queue only by  *)
(* eviction or into the hands of the worker, and the worker does not stay in  *)
(* an analysis for ever; again and again the result last returned by          *)
(* get_result is the newest result produced, so every result produced is      *)
(* returned by a later call unless a newer one is returned in its place.      *)
C40_FramesAnalyzedResultsReturned ==
    /\ \A f \in 1..MaxSubmits :
           []<>(\A i \in 1..Len(frame_queue) : frame_queue[i] # f)
    /\ [][\A f \in 1..MaxSubmits :
             ( /\ \E i \in 1..Len(frame_queue) : frame_queue[i] = f
               /\ \A i \in 1..Len(frame_queue') : frame_queue'[i] # f ) =>
                 \/ evicted' = evicted + 1
                 \/ (wk_frame' = f /\ wk_pc' = "analyze")]_vars
    /\ []<>(wk_pc # "analyze")
    /\ []<>(gr_last.seq >= wk_result.seq)

(* Two frames were analyzed and the second result has been returned           *)
C40_Witness ==
    /\ running
    /\ total_analyses = 2
    /\ failed_analyses = 0
    /\ frame_queue = <<>>
    /\ gr_last.seq = 2
    /\ gr_prev.seq = 1

(* C32: the capture thread does not hold the frame lock while it is inside    *)
(* the blocking device read, and the worker holds no lock while it is inside  *)
(* the external analysis call; whoever holds a lock is inside one copy-in or  *)
(* copy-out section: the capture thread storing what it has read, the worker  *)
(* inside one queue operation.                                                *)
C32_NoLockAcrossSlowCalls ==
    /\ cap_pc = "reading" => frame_lock # "capture"
    /\ wk_pc = "analyze" =>
           /\ frame_lock # "worker"
           /\ frame_mutex # "worker"
           /\ result_mutex # "worker"
    /\ frame_lock = "capture" => cap_pc = "publish"
    /\ frame_mutex = "worker" => wk_pc = "wait"
    /\ result_mutex = "worker" => wk_pc \in {"drain", "drain_get", "put"}

(* read() holds the frame lock while the capture thread is inside the device  *)
(* read and the worker is inside the analysis call                            *)
C32_Witness ==
    /\ cap_pc = "reading"
    /\ frame_lock = "main"
    /\ wk_pc = "analyze"
    /\ last_ok > 0

====
